---- MODULE Spec2Model ----
(***************************************************************************)
(* Verification model of the appstore operator: the AppDeployment          *)
(* reconciler (controller), the Helm client it drives, and the RabbitMQ    *)
(* deployment handler that creates, updates and deletes AppDeployment      *)
(* records.                                                                *)
(***************************************************************************)
EXTENDS Integers, Sequences, FiniteSets, TLC

\* ------------------------------------------------------------------------
\* Bounds of the model
\* ------------------------------------------------------------------------
MaxTime == 2
MaxGeneration == 2
MaxRevision == 2
MaxFailureCount == 1
MaxFaults == 1
MaxRefs == 2
MaxPulls == 1

\* ------------------------------------------------------------------------
\* Values trees (map[string]interface{}): a map is a function from keys to
\* nodes, a node is a scalar or a nested map.
\* ------------------------------------------------------------------------
Scalar(s) == [t |-> "s", v |-> s]
Map(m) == [t |-> "m", m |-> m]
IsMap(x) == x.t = "m"
EmptyMap == <<>>

\* Keys in the byte order encoding/json uses when it marshals a map.
SortedKeys == <<"persistence", "replicas", "size">>

\* mergeMaps with the destination winning a conflict (mutation of mergeMaps).
RECURSIVE mergeMapsDstWins(_, _)
mergeMapsDstWins(dst, src) ==
    [key \in (DOMAIN dst) \cup (DOMAIN src) |->
        IF key \notin DOMAIN src THEN dst[key]
        ELSE IF key \in DOMAIN dst
             THEN IF IsMap(src[key]) /\ IsMap(dst[key])
                  THEN Map(mergeMapsDstWins(dst[key].m, src[key].m))
                  ELSE dst[key]
             ELSE src[key]]

\* mergeMaps recursively merges src into dst.
RECURSIVE mergeMaps(_, _)
mergeMaps(dst, src) ==
    [key \in (DOMAIN dst) \cup (DOMAIN src) |->
        IF key \notin DOMAIN src THEN dst[key]
        ELSE IF key \in DOMAIN dst /\ IsMap(src[key]) /\ IsMap(dst[key])
             THEN Map(mergeMaps(dst[key].m, src[key].m))
             ELSE src[key]]

\* json.Marshal of a values map: keys in sorted order, nested maps inline.
RECURSIVE marshalFrom(_, _)
marshalFrom(m, i) ==
    IF i > Len(SortedKeys) THEN <<>>
    ELSE LET k == SortedKeys[i] IN
         IF k \notin DOMAIN m THEN marshalFrom(m, i + 1)
         ELSE <<k>> \o (IF IsMap(m[k])
                        THEN <<"{">> \o marshalFrom(m[k].m, 1) \o <<"}">>
                        ELSE <<m[k].v>>)
                    \o marshalFrom(m, i + 1)

jsonMarshal(m) == <<"{">> \o marshalFrom(m, 1) \o <<"}">>

\* hashValues: the digest of the marshalled map (the digest is taken to be
\* collision free, so it is represented by the bytes it digests).
hashValues(values) == <<"sha256">> \o jsonMarshal(values)

\* The empty string of status.lastAppliedValuesHash before any deployment.
NoHash == <<>>

\* ------------------------------------------------------------------------
\* ConfigMaps and Secrets that valuesFrom references read.  An object is a
\* function from data keys to documents; a document is a values map or
\* the marker of content that does not parse.
\* ------------------------------------------------------------------------
BadDoc == [t |-> "bad"]
Doc(m) == [t |-> "doc", m |-> m]
NilValues == [t |-> "nil"]

\* The data key read when a reference names none.
ValuesKeyDefault == "values.yaml"

Ref(kind, name, key, optional) ==
    [Kind |-> kind, Name |-> name, ValuesKey |-> key, Optional |-> optional]

\* getValuesFromReference: cluster maps Kind -> Name -> key -> document.
getValuesFromReference(cluster, ref) ==
    LET key == IF ref.ValuesKey = "" THEN ValuesKeyDefault ELSE ref.ValuesKey IN
    IF ref.Kind \notin {"ConfigMap", "Secret"}
    THEN [err |-> TRUE, values |-> EmptyMap]
    ELSE IF ref.Name \notin DOMAIN cluster[ref.Kind]
    THEN [err |-> TRUE, values |-> EmptyMap]
    ELSE IF key \notin DOMAIN cluster[ref.Kind][ref.Name]
    THEN [err |-> TRUE, values |-> EmptyMap]
    ELSE IF cluster[ref.Kind][ref.Name][key].t = "bad"
    THEN [err |-> TRUE, values |-> EmptyMap]
    ELSE [err |-> FALSE, values |-> cluster[ref.Kind][ref.Name][key].m]

\* The loop of getValues that ends with the error of an optional reference
\* too (mutation of getValuesLoop).
getValuesLoopNoSkip(cluster, refs, i, values) ==
    IF \E j \in 1..Len(refs) : getValuesFromReference(cluster, refs[j]).err
    THEN [err |-> TRUE, values |-> EmptyMap]
    ELSE [err |-> FALSE, values |-> EmptyMap]

\* The loop of getValues over spec.valuesFrom, from position i on.
RECURSIVE getValuesLoop(_, _, _, _)
getValuesLoop(cluster, refs, i, values) ==
    IF i > Len(refs) THEN [err |-> FALSE, values |-> values]
    ELSE LET r == getValuesFromReference(cluster, refs[i]) IN
         IF r.err
         THEN IF refs[i].Optional
              THEN getValuesLoop(cluster, refs, i + 1, values)
              ELSE [err |-> TRUE, values |-> EmptyMap]
         ELSE getValuesLoop(cluster, refs, i + 1, mergeMaps(values, r.values))

\* getValues: valuesFrom references first, spec.values on top.
getValues(cluster, spec) ==
    LET fromRefs == getValuesLoop(cluster, spec.ValuesFrom, 1, EmptyMap) IN
    IF fromRefs.err THEN fromRefs
    ELSE IF spec.Values.t = "nil" THEN fromRefs
    ELSE IF spec.Values.t = "bad" THEN [err |-> TRUE, values |-> EmptyMap]
    ELSE [err |-> FALSE, values |-> mergeMaps(fromRefs.values, spec.Values.m)]

\* ------------------------------------------------------------------------
\* Program constants and fixed environment
\* ------------------------------------------------------------------------
\* payload.RequestID[:8]
RequestIDPrefixLen == 8

\* The version of every chart in the local charts directory.
LocalChartVersion == "2.0"
Charts == {"postgresql"}

\* The charts a repository can hold: the chart of the application and one
\* that no deployment asks for.
CatalogCharts == Charts \cup {"redis"}

\* ConfigMaps and Secrets of the namespace in the controller model.
MainCluster == [ConfigMap |-> <<>>, Secret |-> <<>>]

Msg(s) == <<s>>

ReqIdA == <<"a", "b", "c", "d", "e", "f", "0", "1", "x">>
ReqIdB == <<"a", "b", "c", "d", "e", "f", "0", "1", "y">>

ValuesThree == [replicas |-> Scalar("3")]
ValuesOne == [replicas |-> Scalar("1")]

\* Deployment-request payloads that are published.
DeploymentRequests ==
    { [RequestID |-> ReqIdA, TeamID |-> "t1", UserID |-> "u1",
       AppName |-> "postgresql", Namespace |-> "ns1", ReleaseName |-> <<>>,
       Version |-> "", Values |-> NilValues],
      [RequestID |-> ReqIdB, TeamID |-> "t2", UserID |-> "u2",
       AppName |-> "postgresql", Namespace |-> "ns1", ReleaseName |-> <<>>,
       Version |-> "1.0", Values |-> Doc(ValuesThree)] }

\* payload.RequestID[:8] of an id shorter than 8 characters is a slice out of
\* range: the goroutine panics.  The id is sliced only when the payload
\* names no release.
SlicePanics(payload) ==
    payload.ReleaseName = <<>> /\ Len(payload.RequestID) < RequestIDPrefixLen

\* The record name HandleDeploymentRequest resolves for a payload.
ResolveName(payload) ==
    IF payload.ReleaseName # <<>> THEN payload.ReleaseName
    ELSE <<payload.AppName, "-">> \o SubSeq(payload.RequestID, 1, RequestIDPrefixLen)

Names == {ResolveName(p) : p \in DeploymentRequests}

\* Deployment-update payloads that are published.
DeploymentUpdates ==
    { [RequestID |-> ReqIdA, TeamID |-> "t1", UserID |-> "u1", Name |-> n,
       Namespace |-> "ns1", Version |-> "", Values |-> Doc(ValuesOne)] : n \in Names }

\* Deployment-update payloads with and without a version, and with and
\* without values.
UpdatePayloads ==
    { [RequestID |-> ReqIdA, TeamID |-> team, UserID |-> "u1", Name |-> n,
       Namespace |-> "ns1", Version |-> v, Values |-> vals] :
          n \in Names, team \in {"t1", "t2"}, v \in {"", "2.0"},
          vals \in {NilValues, Doc(ValuesOne)} }

\* Deployment-delete payloads that are published.
DeploymentDeletes ==
    { [RequestID |-> ReqIdA, TeamID |-> team, UserID |-> "u1", Name |-> n,
       Namespace |-> "ns1"] : team \in {"t1", "t2"}, n \in Names }

\* ------------------------------------------------------------------------
\* State
\* ------------------------------------------------------------------------
VARIABLES
    records,    \* API server: name -> AppDeployment or NoRec
    releases,   \* Helm storage: release name -> release or NoRelease
    mirror,     \* chart directories with a Chart.yaml in the charts path
    queued,     \* work queue of the controller: names to reconcile
    faults,     \* name -> Helm calls for the record that have failed
    pc,         \* position of the reconcile pass
    rname,      \* name the pass reconciles
    obj,        \* appDeployment: the pass's copy of the record
    rstale,     \* the copy's resourceVersion is behind the server's
    loc,        \* locals of reconcileHelm
    result,     \* (ctrl.Result, error) of the last finished pass
    log,        \* what the current (or last) pass has done
    hpc,        \* position of the message handler
    hmsg,       \* payload the handler is working on
    hstale,     \* the handler's copy is behind the server's
    hres,       \* outcome of the last finished handler call
    settled,    \* name -> last pass ended Deployed, nothing changed since
    unCalls,    \* name -> Uninstall calls since the deletion marker was set
    unFails,    \* name -> failed Uninstall calls since then
    gvIn,       \* the ConfigMaps and Secrets of the namespace (cluster) and
                \* the input of a getValues evaluation
    gvOut,      \* its result
    pulls,      \* pulls of the chart repository that changed the charts
    sync,       \* the Syncer, its lock and the local copy of the charts
    hc,         \* the helm Client: its mutex, its callers, the release store
    mq,         \* the message queue and the consumer's delivery
    ctl,        \* the shutdown context, Consumer.Start and the connection
    lk          \* s.mu and c.mu: holders, waiters and the workers' calls

vars == <<records, releases, mirror, queued, faults, pc, rname, obj,
          rstale, loc, result, log, hpc, hmsg, hstale, hres, settled,
          unCalls, unFails, gvIn, gvOut, pulls, sync, hc, mq, ctl, lk>>

\* The variables the controller and the handler never write.
envVars == <<gvIn, gvOut, pulls, sync, hc, mq, ctl, lk>>

NoRec == [exists |-> FALSE]
NoRelease == [exists |-> FALSE]
NoPayload == [RequestID |-> <<>>]

EmptyStatus ==
    [Phase |-> "", HelmReleaseName |-> <<>>, HelmReleaseRevision |-> 0,
     DeployedChartVersion |-> "", LastAppliedValuesHash |-> NoHash,
     Conditions |-> <<>>, LastReconcileTime |-> 0, ObservedGeneration |-> 0,
     FailureCount |-> 0, Message |-> <<>>]

EmptyLoc == [valuesHash |-> NoHash, values |-> EmptyMap,
             releaseInfo |-> NoRelease, msg |-> <<>>]

EmptyLog == [settled |-> FALSE, sawFinalizer |-> FALSE, sawSuspend |-> FALSE,
             sawDeletion |-> FALSE, startStatus |-> EmptyStatus,
             absentAtStart |-> FALSE,
             releaseAbsent |-> FALSE, installs |-> 0, upgrades |-> 0,
             uninstalls |-> 0, uninstallOk |-> FALSE, getReleases |-> 0,
             statusWrites |-> 0, phases |-> {}, addedFinalizer |-> FALSE,
             removedFinalizer |-> FALSE, done |-> FALSE]

\* Results of Reconcile.
ResNone == [requeue |-> "none", err |-> FALSE]
ResRequeue == [requeue |-> "now", err |-> FALSE]
ResAfterSuccess == [requeue |-> "afterSuccess", err |-> FALSE]
ResAfterFailure == [requeue |-> "afterFailure", err |-> FALSE]
ResErr == [requeue |-> "none", err |-> TRUE]
ResAfterFailureErr == [requeue |-> "afterFailure", err |-> TRUE]

\* The work queue runs the request again after an error or a requeue.
Requeues(res) == res.err \/ res.requeue # "none"

\* time.Now / metav1.Now as a status writer reads it: no earlier than the
\* time of the last write to the status it holds (0: never written).
Clock(r) ==
    (IF r.Status.LastReconcileTime = 0 THEN 1 ELSE r.Status.LastReconcileTime)
        .. MaxTime

\* ------------------------------------------------------------------------
\* Status writers of the controller
\* ------------------------------------------------------------------------
Condition(type, status, reason, message, t) ==
    [Type |-> type, Status |-> status, Reason |-> reason, Message |-> message,
     LastTransitionTime |-> t]

\* SetStatusCondition that moves the transition time on every call
\* (mutation of SetStatusCondition).
SetStatusConditionAlwaysMoves(conds, c) ==
    IF \E i \in 1..Len(conds) : conds[i].Type = c.Type
    THEN [i \in 1..Len(conds) |-> IF conds[i].Type = c.Type THEN c ELSE conds[i]]
    ELSE Append(conds, c)

\* meta.SetStatusCondition: the transition time moves only when the status
\* of the condition changes.
SetStatusCondition(conds, c) ==
    IF \E i \in 1..Len(conds) : conds[i].Type = c.Type
    THEN [i \in 1..Len(conds) |->
            IF conds[i].Type = c.Type
            THEN [c EXCEPT !.LastTransitionTime =
                     IF conds[i].Status # c.Status THEN c.LastTransitionTime
                     ELSE conds[i].LastTransitionTime]
            ELSE conds[i]]
    ELSE Append(conds, c)

\* updateStatusPhase that clears the hash of the applied values (mutation
\* of updateStatusPhase).
updateStatusPhaseClearsHash(r, phase, message, t) ==
    [r.Status EXCEPT
        !.Phase = phase,
        !.Message = message,
        !.LastReconcileTime = t,
        !.ObservedGeneration = r.Generation,
        !.LastAppliedValuesHash = <<>>,
        !.Conditions = SetStatusCondition(r.Status.Conditions,
            Condition("Reconciling", TRUE, phase, message, t))]

\* updateStatusPhase: the status it sends to the API server.
updateStatusPhase(r, phase, message, t) ==
    [r.Status EXCEPT
        !.Phase = phase,
        !.Message = message,
        !.LastReconcileTime = t,
        !.ObservedGeneration = r.Generation,
        !.Conditions = SetStatusCondition(r.Status.Conditions,
            Condition("Reconciling", TRUE, phase, message, t))]

\* updateStatusDeployed that leaves the hash of the applied values as it is
\* (mutation of updateStatusDeployed).
updateStatusDeployedKeepsHash(r, releaseInfo, valuesHash, t) ==
    [r.Status EXCEPT
        !.Phase = "Deployed",
        !.Message = Msg("Helm release deployed successfully"),
        !.HelmReleaseName = releaseInfo.Name,
        !.HelmReleaseRevision = releaseInfo.Revision,
        !.DeployedChartVersion = releaseInfo.ChartVersion,
        !.LastReconcileTime = t,
        !.ObservedGeneration = r.Generation,
        !.FailureCount = 0,
        !.Conditions = SetStatusCondition(
            SetStatusCondition(r.Status.Conditions,
                Condition("Ready", TRUE, "Deployed",
                          Msg("Helm release is deployed and ready"), t)),
            Condition("Reconciling", FALSE, "Deployed",
                      Msg("Reconciliation complete"), t))]

\* updateStatusDeployed: the status it sends to the API server.
updateStatusDeployed(r, releaseInfo, valuesHash, t) ==
    [r.Status EXCEPT
        !.Phase = "Deployed",
        !.Message = Msg("Helm release deployed successfully"),
        !.HelmReleaseName = releaseInfo.Name,
        !.HelmReleaseRevision = releaseInfo.Revision,
        !.DeployedChartVersion = releaseInfo.ChartVersion,
        !.LastAppliedValuesHash = valuesHash,
        !.LastReconcileTime = t,
        !.ObservedGeneration = r.Generation,
        !.FailureCount = 0,
        !.Conditions = SetStatusCondition(
            SetStatusCondition(r.Status.Conditions,
                Condition("Ready", TRUE, "Deployed",
                          Msg("Helm release is deployed and ready"), t)),
            Condition("Reconciling", FALSE, "Deployed",
                      Msg("Reconciliation complete"), t))]

\* updateStatusFailed that leaves the failure counter as it is (mutation of
\* updateStatusFailed).
updateStatusFailedKeepsCount(r, message, t) ==
    [r.Status EXCEPT
        !.Phase = "Failed",
        !.Message = message,
        !.LastReconcileTime = t,
        !.ObservedGeneration = r.Generation,
        !.Conditions = SetStatusCondition(r.Status.Conditions,
            Condition("Ready", FALSE, "Failed", message, t))]

\* updateStatusFailed: the status it sends to the API server.
updateStatusFailed(r, message, t) ==
    [r.Status EXCEPT
        !.Phase = "Failed",
        !.Message = message,
        !.LastReconcileTime = t,
        !.ObservedGeneration = r.Generation,
        !.FailureCount = r.Status.FailureCount + 1,
        !.Conditions = SetStatusCondition(r.Status.Conditions,
            Condition("Ready", FALSE, "Failed", message, t))]

\* needsUpgrade that looks at the values hash only (mutation of
\* needsUpgrade).
needsUpgradeHashOnly(r, release, valuesHash) ==
    r.Status.LastAppliedValuesHash # valuesHash

\* needsUpgrade: values changed, or a requested version differs.
needsUpgrade(r, release, valuesHash) ==
    \/ r.Status.LastAppliedValuesHash # valuesHash
    \/ (r.Spec.ChartVersion # "" /\ r.Spec.ChartVersion # release.ChartVersion)

\* The deletion check that never fires (mutation of BeingDeleted).
BeingDeletedNever(r) == FALSE

\* !appDeployment.DeletionTimestamp.IsZero()
BeingDeleted(r) == r.Deleting

\* The suspend check that never fires (mutation of Suspended).
SuspendedNever(r) == FALSE

\* appDeployment.Spec.Suspend
Suspended(r) == r.Spec.Suspend

\* The finalizer check that always finds one (mutation of ContainsFinalizer).
ContainsFinalizerAlways(r) == TRUE

\* controllerutil.ContainsFinalizer(appDeployment, finalizerName)
ContainsFinalizer(r) == r.Finalizer

\* The release check that takes an absent release for an existing one
\* (mutation of ReleaseFound).
ReleaseFoundAlways(existing) == TRUE

\* existingRelease != nil
ReleaseFound(existing) == existing.exists

\* The release name reconcileHelm and reconcileDelete resolve.
ReleaseNameOf(r) ==
    IF r.Spec.ReleaseName = <<>> THEN r.Name ELSE r.Spec.ReleaseName

\* ChartValidator.ListCharts as it is printed into the failure message.
ListCharts ==
    (IF "postgresql" \in mirror THEN <<"postgresql">> ELSE <<>>)
        \o (IF "redis" \in mirror THEN <<"redis">> ELSE <<>>)

\* The message that does not list the charts (mutation of ChartNotFoundMsg).
ChartNotFoundMsgNoList(app) == <<"Chart not found in catalog", app>>

ChartNotFoundMsg(app) == <<"Chart not found in catalog", app>> \o ListCharts

\* locateChart: the local chart directory if there is one; no repository
\* URL is configured, so a chart that is not local is not found.
locateChart(chartName, version) ==
    IF chartName \in mirror
    THEN [err |-> FALSE, ChartVersion |-> LocalChartVersion]
    ELSE [err |-> TRUE, ChartVersion |-> ""]

\* ------------------------------------------------------------------------
\* The reconcile pass.  A pass is a sequence of steps, one per call that
\* leaves the process (API server write, Helm call); reads are taken with
\* the step that precedes them.
\* ------------------------------------------------------------------------
HandlerHolds(n) == hpc \in {"update", "delete"} /\ hmsg.Name = n

\* The pass on r would call Upgrade if nothing fails.
WouldUpgrade(r) ==
    LET v == getValues(gvIn.cluster, r.Spec) IN
    \/ v.err
    \/ needsUpgrade(r, releases[ReleaseNameOf(r)], hashValues(v.values))

\* A pass is not started when one of its counters would pass its bound: at
\* the bound of the failure counter a pass starts when its chart is local
\* and its values resolve, and no Helm call of it is made to fail.
PassAllowed(r) ==
    \/ r.Deleting
    \/ /\ \/ r.Status.FailureCount < MaxFailureCount
          \/ (r.Spec.AppName \in mirror /\ ~getValues(gvIn.cluster, r.Spec).err)
       /\ (releases[ReleaseNameOf(r)].exists /\ WouldUpgrade(r)
             => releases[ReleaseNameOf(r)].Revision < MaxRevision)

\* The pass returns res; stl: the pass ended with a Deployed status write
\* and the chart it validated is still in the charts directory.
Return(n, res, lg, q, stl) ==
    /\ pc' = "return"
    /\ result' = res
    /\ obj' = NoRec
    /\ loc' = EmptyLoc
    /\ rstale' = FALSE
    /\ log' = [lg EXCEPT !.done = TRUE]
    /\ queued' = q
    /\ settled' = [settled EXCEPT ![n] = stl]

\* The pass goes on at position p.
Goto(p, o, l, lg, q) ==
    /\ pc' = p
    /\ obj' = o
    /\ loc' = l
    /\ log' = lg
    /\ queued' = q
    /\ UNCHANGED <<result, rstale, settled>>

\* reconcileHelm up to its first write: chart validation, values, hash and
\* the query for the existing release.  getFails: GetRelease returns an error.
reconcileHelmRead(n, r, lg, q, getFails) ==
    IF r.Spec.AppName \notin mirror
    THEN /\ Goto("failed", r, [EmptyLoc EXCEPT !.msg = ChartNotFoundMsg(r.Spec.AppName)], lg, q)
         /\ UNCHANGED faults
    ELSE LET v == getValues(gvIn.cluster, r.Spec) IN
         IF v.err
         THEN /\ Goto("failed", r, [EmptyLoc EXCEPT !.msg = Msg("Failed to get values")], lg, q)
              /\ UNCHANGED faults
         ELSE LET h == hashValues(v.values)
                  l == [EmptyLoc EXCEPT !.values = v.values, !.valuesHash = h]
                  lg1 == [lg EXCEPT !.getReleases = 1]
                  existing == releases[ReleaseNameOf(r)]
              IN
              IF getFails
              THEN /\ faults[n] < MaxFaults
                   /\ r.Status.FailureCount < MaxFailureCount
                   /\ faults' = [faults EXCEPT ![n] = @ + 1]
                   /\ Goto("failed", r,
                           [l EXCEPT !.msg = Msg("Failed to check existing release")], lg1, q)
              ELSE /\ UNCHANGED faults
                   /\ IF ~ReleaseFound(existing)
                      THEN Goto("installing", r, l, [lg1 EXCEPT !.releaseAbsent = TRUE], q)
                      ELSE IF needsUpgrade(r, existing, h)
                      THEN Goto("upgrading", r, l, lg1, q)
                      ELSE Goto("deployed", r, [l EXCEPT !.releaseInfo = existing], lg1, q)

\* Reconcile: fetch the record and branch on deletion, finalizer, suspend.
Reconcile(n) ==
    /\ UNCHANGED envVars
    /\ pc = "idle"
    /\ n \in queued
    /\ rname' = n
    /\ UNCHANGED <<records, releases, mirror, hpc, hmsg, hstale, hres,
                   unCalls, unFails>>
    /\ LET r == records[n]
           q == queued \ {n}
       IN
       IF ~r.exists
       THEN /\ Return(n, ResNone, EmptyLog, q, FALSE)
            /\ UNCHANGED faults
       ELSE /\ PassAllowed(r)
            /\ LET lg == [EmptyLog EXCEPT !.settled = settled[n],
                                           !.sawFinalizer = r.Finalizer,
                                           !.sawSuspend = r.Spec.Suspend,
                                           !.sawDeletion = r.Deleting,
                                           !.startStatus = r.Status,
                                           !.absentAtStart =
                                               ~releases[ReleaseNameOf(r)].exists]
               IN
               IF BeingDeleted(r)
               THEN /\ UNCHANGED faults
                    /\ IF ContainsFinalizer(r)
                       THEN Goto("delPhase", r, EmptyLoc, lg, q)
                       ELSE Return(n, ResNone, lg, q, FALSE)
               ELSE IF ~ContainsFinalizer(r)
               THEN /\ UNCHANGED faults
                    /\ Goto("addFinalizer", r, EmptyLoc, lg, q)
               ELSE IF Suspended(r)
               THEN /\ UNCHANGED faults
                    /\ Return(n, ResNone, lg, q, FALSE)
               ELSE \E getFails \in BOOLEAN :
                        reconcileHelmRead(n, r, lg, q, getFails)

\* The work queue takes the result of the pass: the request is queued again
\* after an error or a requeue, and forgotten otherwise.
Requeue ==
    /\ UNCHANGED envVars
    /\ pc = "return"
    /\ pc' = "idle"
    /\ queued' = IF Requeues(result) THEN queued \cup {rname} ELSE queued
    /\ result' = ResNone
    /\ log' = EmptyLog
    /\ UNCHANGED <<records, releases, mirror, faults, rname, obj, rstale,
                   loc, hpc, hmsg, hstale, hres, settled, unCalls, unFails>>

\* What a write of record n by the controller does to the other holders of
\* a copy and to the work queue (a write that changes nothing is no event).
Changed(n, r2) == r2 # records[n]
AfterWrite(n, r2) == IF Changed(n, r2) THEN queued \cup {n} ELSE queued

\* r.Update that persists the finalizer, then Requeue: true.
AddFinalizer ==
    /\ UNCHANGED envVars
    /\ pc = "addFinalizer"
    /\ UNCHANGED <<releases, mirror, faults, rname, hpc, hmsg, hres,
                   unCalls, unFails>>
    /\ IF rstale
       THEN /\ Return(rname, ResErr, log, queued, FALSE)
            /\ UNCHANGED <<records, hstale>>
       ELSE LET r2 == [obj EXCEPT !.Finalizer = TRUE] IN
            /\ records' = [records EXCEPT ![rname] = r2]
            /\ hstale' = (hstale \/ HandlerHolds(rname))
            /\ Return(rname, ResRequeue, [log EXCEPT !.addedFinalizer = TRUE],
                      queued \cup {rname}, FALSE)

\* updateStatusPhase at position at; on success the pass goes on at next.
StatusPhaseStep(at, phase, message, next) ==
    /\ UNCHANGED envVars
    /\ pc = at
    /\ UNCHANGED <<releases, mirror, faults, rname, hpc, hmsg, hres,
                   unCalls, unFails>>
    /\ \E t \in Clock(obj) :
          IF rstale
          THEN /\ Return(rname, ResErr, log, queued, FALSE)
               /\ UNCHANGED <<records, hstale>>
          ELSE LET r2 == [obj EXCEPT !.Status = updateStatusPhase(obj, phase, message, t)] IN
               /\ records' = [records EXCEPT ![rname] = r2]
               /\ hstale' = (hstale \/ (HandlerHolds(rname) /\ Changed(rname, r2)))
               /\ Goto(next, r2, loc,
                       [log EXCEPT !.statusWrites = @ + 1, !.phases = @ \cup {phase}],
                       AfterWrite(rname, r2))

SetInstalling ==
    StatusPhaseStep("installing", "Installing", Msg("Installing Helm chart"), "install")

SetUpgrading ==
    StatusPhaseStep("upgrading", "Upgrading", Msg("Upgrading Helm chart"), "upgrade")

\* The release Install or Upgrade stores.
NewRelease(name, r, values, chartVersion, revision) ==
    [exists |-> TRUE, Name |-> name, Namespace |-> r.Namespace,
     Revision |-> revision, Status |-> "deployed",
     ChartName |-> r.Spec.AppName, ChartVersion |-> chartVersion,
     values |-> values]

\* Install that is called again in the same pass when it has failed
\* (mutation of Install).
InstallRetriesInPass ==
    /\ UNCHANGED envVars
    /\ pc = "install"
    /\ UNCHANGED <<records, mirror, rname, hpc, hmsg, hstale, hres,
                   unCalls, unFails>>
    /\ \E fails \in BOOLEAN :
          LET name == ReleaseNameOf(obj)
              ch == locateChart(obj.Spec.AppName, obj.Spec.ChartVersion)
              ok == ~fails /\ ~ch.err /\ ~releases[name].exists
              rel == NewRelease(name, obj, loc.values, ch.ChartVersion, 1)
              lg == [log EXCEPT !.installs = @ + 1]
          IN
          /\ fails => (faults[rname] < MaxFaults
                       /\ obj.Status.FailureCount < MaxFailureCount)
          /\ faults' = [faults EXCEPT ![rname] = IF fails THEN @ + 1 ELSE @]
          /\ IF ok
             THEN /\ releases' = [releases EXCEPT ![name] = rel]
                  /\ Goto("deployed", obj, [loc EXCEPT !.releaseInfo = rel], lg, queued)
             ELSE /\ UNCHANGED releases
                  /\ Goto("install", obj, loc, lg, queued)

\* HelmClient.Install and what reconcileHelm does with its result.
Install ==
    /\ UNCHANGED envVars
    /\ pc = "install"
    /\ UNCHANGED <<records, mirror, rname, hpc, hmsg, hstale, hres,
                   unCalls, unFails>>
    /\ \E fails \in BOOLEAN :
          LET name == ReleaseNameOf(obj)
              ch == locateChart(obj.Spec.AppName, obj.Spec.ChartVersion)
              ok == ~fails /\ ~ch.err /\ ~releases[name].exists
              rel == NewRelease(name, obj, loc.values, ch.ChartVersion, 1)
              lg == [log EXCEPT !.installs = @ + 1]
          IN
          /\ fails => (faults[rname] < MaxFaults
                       /\ obj.Status.FailureCount < MaxFailureCount)
          /\ faults' = [faults EXCEPT ![rname] = IF fails THEN @ + 1 ELSE @]
          /\ IF ok
             THEN /\ releases' = [releases EXCEPT ![name] = rel]
                  /\ Goto("deployed", obj, [loc EXCEPT !.releaseInfo = rel], lg, queued)
             ELSE /\ UNCHANGED releases
                  /\ Goto("failed", obj, [loc EXCEPT !.msg = Msg("Failed to install")],
                          lg, queued)

\* HelmClient.Upgrade and what reconcileHelm does with its result.
Upgrade ==
    /\ UNCHANGED envVars
    /\ pc = "upgrade"
    /\ UNCHANGED <<records, mirror, rname, hpc, hmsg, hstale, hres,
                   unCalls, unFails>>
    /\ \E fails \in BOOLEAN :
          LET name == ReleaseNameOf(obj)
              ch == locateChart(obj.Spec.AppName, obj.Spec.ChartVersion)
              ok == ~fails /\ ~ch.err /\ releases[name].exists
              rel == NewRelease(name, obj, loc.values, ch.ChartVersion,
                                releases[name].Revision + 1)
              lg == [log EXCEPT !.upgrades = @ + 1]
          IN
          /\ fails => (faults[rname] < MaxFaults
                       /\ obj.Status.FailureCount < MaxFailureCount)
          /\ faults' = [faults EXCEPT ![rname] = IF fails THEN @ + 1 ELSE @]
          /\ IF ok
             THEN /\ releases' = [releases EXCEPT ![name] = rel]
                  /\ Goto("deployed", obj, [loc EXCEPT !.releaseInfo = rel], lg, queued)
             ELSE /\ UNCHANGED releases
                  /\ Goto("failed", obj, [loc EXCEPT !.msg = Msg("Failed to upgrade")],
                          lg, queued)

\* updateStatusDeployed at the end of reconcileHelm.
WriteDeployed ==
    /\ UNCHANGED envVars
    /\ pc = "deployed"
    /\ UNCHANGED <<releases, mirror, faults, rname, hpc, hmsg, hres,
                   unCalls, unFails>>
    /\ \E t \in Clock(obj) :
          IF rstale
          THEN /\ Return(rname, ResErr, log, queued, FALSE)
               /\ UNCHANGED <<records, hstale>>
          ELSE LET r2 == [obj EXCEPT !.Status =
                             updateStatusDeployed(obj, loc.releaseInfo, loc.valuesHash, t)]
               IN
               /\ records' = [records EXCEPT ![rname] = r2]
               /\ hstale' = (hstale \/ (HandlerHolds(rname) /\ Changed(rname, r2)))
               /\ Return(rname, ResAfterSuccess,
                         [log EXCEPT !.statusWrites = @ + 1, !.phases = @ \cup {"Deployed"}],
                         AfterWrite(rname, r2), obj.Spec.AppName \in mirror)

\* updateStatusFailed on every failure exit of reconcileHelm.
WriteFailed ==
    /\ UNCHANGED envVars
    /\ pc = "failed"
    /\ UNCHANGED <<releases, mirror, faults, rname, hpc, hmsg, hres,
                   unCalls, unFails>>
    /\ \E t \in Clock(obj) :
          IF rstale
          THEN /\ Return(rname, ResErr, log, queued, FALSE)
               /\ UNCHANGED <<records, hstale>>
          ELSE LET r2 == [obj EXCEPT !.Status = updateStatusFailed(obj, loc.msg, t)] IN
               /\ records' = [records EXCEPT ![rname] = r2]
               /\ hstale' = (hstale \/ (HandlerHolds(rname) /\ Changed(rname, r2)))
               /\ Return(rname, ResAfterFailure,
                         [log EXCEPT !.statusWrites = @ + 1, !.phases = @ \cup {"Failed"}],
                         AfterWrite(rname, r2), FALSE)

\* ReleaseExists that reports every release as existing (mutation of
\* ReleaseExists).
ReleaseExistsAlways(name) == TRUE

\* HelmClient.ReleaseExists: GetRelease returned a release.
ReleaseExists(name) == releases[name].exists

\* reconcileDelete: status Uninstalling, then the ReleaseExists query.
DeleteSetPhase ==
    /\ UNCHANGED envVars
    /\ pc = "delPhase"
    /\ UNCHANGED <<releases, mirror, rname, hpc, hmsg, hres, unCalls, unFails>>
    /\ \E t \in Clock(obj) :
          IF rstale
          THEN /\ Return(rname, ResErr, log, queued, FALSE)
               /\ UNCHANGED <<records, hstale, faults>>
          ELSE LET r2 == [obj EXCEPT !.Status =
                             updateStatusPhase(obj, "Uninstalling",
                                               Msg("Uninstalling Helm release"), t)]
                   lg == [log EXCEPT !.statusWrites = @ + 1,
                                     !.phases = @ \cup {"Uninstalling"}]
                   q == AfterWrite(rname, r2)
               IN
               /\ records' = [records EXCEPT ![rname] = r2]
               /\ hstale' = (hstale \/ (HandlerHolds(rname) /\ Changed(rname, r2)))
               /\ \E existsFails \in BOOLEAN :
                     IF existsFails
                     THEN /\ faults[rname] < MaxFaults
                          /\ faults' = [faults EXCEPT ![rname] = @ + 1]
                          /\ Return(rname, ResAfterFailureErr, lg, q, FALSE)
                     ELSE /\ UNCHANGED faults
                          /\ IF ReleaseExists(ReleaseNameOf(obj))
                             THEN Goto("uninstall", r2, loc, lg, q)
                             ELSE Goto("removeFinalizer", r2, loc,
                                       [lg EXCEPT !.releaseAbsent = TRUE], q)

\* Uninstall whose error is logged and not returned, so that the pass goes
\* on to remove the finalizer (mutation of Uninstall).
UninstallIgnoresError ==
    /\ UNCHANGED envVars
    /\ pc = "uninstall"
    /\ UNCHANGED <<records, mirror, rname, hpc, hmsg, hstale, hres>>
    /\ \E fails \in BOOLEAN :
          LET name == ReleaseNameOf(obj)
              ok == ~fails /\ releases[name].exists
              lg == [log EXCEPT !.uninstalls = @ + 1]
          IN
          /\ fails => faults[rname] < MaxFaults
          /\ faults' = [faults EXCEPT ![rname] = IF fails THEN @ + 1 ELSE @]
          /\ unCalls' = [unCalls EXCEPT ![rname] = @ + 1]
          /\ IF ok
             THEN /\ releases' = [releases EXCEPT ![name] = NoRelease]
                  /\ UNCHANGED unFails
                  /\ Goto("removeFinalizer", obj, loc,
                          [lg EXCEPT !.uninstallOk = TRUE], queued)
             ELSE /\ UNCHANGED releases
                  /\ unFails' = [unFails EXCEPT ![rname] = @ + 1]
                  /\ Goto("removeFinalizer", obj, loc, lg, queued)

\* Uninstall whose error ends the pass without an error and without a
\* requeue (mutation of Uninstall).
UninstallFailureNotRequeued ==
    /\ UNCHANGED envVars
    /\ pc = "uninstall"
    /\ UNCHANGED <<records, mirror, rname, hpc, hmsg, hstale, hres>>
    /\ \E fails \in BOOLEAN :
          LET name == ReleaseNameOf(obj)
              ok == ~fails /\ releases[name].exists
              lg == [log EXCEPT !.uninstalls = @ + 1]
          IN
          /\ fails => faults[rname] < MaxFaults
          /\ faults' = [faults EXCEPT ![rname] = IF fails THEN @ + 1 ELSE @]
          /\ unCalls' = [unCalls EXCEPT ![rname] = @ + 1]
          /\ IF ok
             THEN /\ releases' = [releases EXCEPT ![name] = NoRelease]
                  /\ UNCHANGED unFails
                  /\ Goto("removeFinalizer", obj, loc,
                          [lg EXCEPT !.uninstallOk = TRUE], queued)
             ELSE /\ UNCHANGED releases
                  /\ unFails' = [unFails EXCEPT ![rname] = @ + 1]
                  /\ Return(rname, ResNone, lg, queued, FALSE)

\* HelmClient.Uninstall and what reconcileDelete does with its result.
Uninstall ==
    /\ UNCHANGED envVars
    /\ pc = "uninstall"
    /\ UNCHANGED <<records, mirror, rname, hpc, hmsg, hstale, hres>>
    /\ \E fails \in BOOLEAN :
          LET name == ReleaseNameOf(obj)
              ok == ~fails /\ releases[name].exists
              lg == [log EXCEPT !.uninstalls = @ + 1]
          IN
          /\ fails => faults[rname] < MaxFaults
          /\ faults' = [faults EXCEPT ![rname] = IF fails THEN @ + 1 ELSE @]
          /\ unCalls' = [unCalls EXCEPT ![rname] = @ + 1]
          /\ IF ok
             THEN /\ releases' = [releases EXCEPT ![name] = NoRelease]
                  /\ UNCHANGED unFails
                  /\ Goto("removeFinalizer", obj, loc,
                          [lg EXCEPT !.uninstallOk = TRUE], queued)
             ELSE /\ UNCHANGED releases
                  /\ unFails' = [unFails EXCEPT ![rname] = @ + 1]
                  /\ Return(rname, ResAfterFailureErr, lg, queued, FALSE)

\* RemoveFinalizer and r.Update; the API server then removes the record,
\* which carries the deletion marker and no finalizer any more.
RemoveFinalizer ==
    /\ UNCHANGED envVars
    /\ pc = "removeFinalizer"
    /\ UNCHANGED <<releases, mirror, rname, hpc, hmsg, hres>>
    /\ IF rstale
       THEN /\ Return(rname, ResErr, log, queued, FALSE)
            /\ UNCHANGED <<records, hstale, faults, unCalls, unFails>>
       ELSE /\ records' = [records EXCEPT ![rname] = NoRec]
            /\ faults' = [faults EXCEPT ![rname] = 0]
            /\ hstale' = (hstale \/ HandlerHolds(rname))
            /\ unCalls' = [unCalls EXCEPT ![rname] = 0]
            /\ unFails' = [unFails EXCEPT ![rname] = 0]
            /\ Return(rname, ResNone, [log EXCEPT !.removedFinalizer = TRUE],
                      queued \cup {rname}, FALSE)

\* ------------------------------------------------------------------------
\* The deployment handler of the message consumer (one delivery at a time)
\* ------------------------------------------------------------------------
ReconcilerHolds(n) == pc \notin {"idle", "return"} /\ rname = n

\* The AppDeployment built without spec.releaseName (mutation of
\* NewAppDeployment).
NewAppDeploymentNoReleaseName(payload, name) ==
    [exists |-> TRUE, Name |-> name, Namespace |-> payload.Namespace,
     Labels |-> [team |-> payload.TeamID, app |-> payload.AppName,
                 requestId |-> payload.RequestID],
     Spec |-> [AppName |-> payload.AppName, ChartVersion |-> payload.Version,
               TeamID |-> payload.TeamID, RequestedBy |-> payload.UserID,
               ReleaseName |-> <<>>, Values |-> payload.Values,
               ValuesFrom |-> <<>>, Suspend |-> FALSE],
     Finalizer |-> FALSE, Deleting |-> FALSE, Generation |-> 1,
     Status |-> EmptyStatus]

\* The AppDeployment HandleDeploymentRequest builds from a payload.
NewAppDeployment(payload, name) ==
    [exists |-> TRUE, Name |-> name, Namespace |-> payload.Namespace,
     Labels |-> [team |-> payload.TeamID, app |-> payload.AppName,
                 requestId |-> payload.RequestID],
     Spec |-> [AppName |-> payload.AppName, ChartVersion |-> payload.Version,
               TeamID |-> payload.TeamID, RequestedBy |-> payload.UserID,
               ReleaseName |-> name, Values |-> payload.Values,
               ValuesFrom |-> <<>>, Suspend |-> FALSE],
     Finalizer |-> FALSE, Deleting |-> FALSE, Generation |-> 1,
     Status |-> EmptyStatus]

\* noop: the handler has sent a write that left the record as it was.
HandlerResult(kind, name, id, err, existed) ==
    [kind |-> kind, name |-> name, id |-> id, err |-> err, existed |-> existed,
     noop |-> FALSE]
NoResult == HandlerResult("none", <<>>, <<>>, FALSE, FALSE)

\* HandleDeploymentRequest that reports an existing record as an error
\* (mutation of HandleDeploymentRequest).
HandleDeploymentRequestExistsIsError(payload) ==
    /\ UNCHANGED envVars
    /\ hpc = "idle"
    /\ UNCHANGED <<releases, mirror, faults, pc, rname, obj, loc, result,
                   log, hmsg, hstale, unCalls, unFails>>
    /\ hpc' = "return"
    /\ LET name == ResolveName(payload) IN
       IF records[name].exists
       THEN /\ hres' = HandlerResult("request", name, payload.RequestID, TRUE, TRUE)
            /\ UNCHANGED <<records, queued, rstale, settled>>
       ELSE /\ records' = [records EXCEPT ![name] = NewAppDeployment(payload, name)]
            /\ queued' = queued \cup {name}
            /\ rstale' = (rstale \/ ReconcilerHolds(name))
            /\ settled' = [settled EXCEPT ![name] = FALSE]
            /\ hres' = HandlerResult("request", name, payload.RequestID, FALSE, FALSE)

\* HandleDeploymentRequest: resolve the name, create the record;
\* AlreadyExists is success.  A panic of the slice expression leaves the
\* handler for good: nothing in the consumer recovers it.
HandleDeploymentRequest(payload) ==
    /\ UNCHANGED envVars
    /\ hpc = "idle"
    /\ UNCHANGED <<releases, mirror, faults, pc, rname, obj, loc, result,
                   log, hmsg, hstale, unCalls, unFails>>
    /\ IF SlicePanics(payload)
       THEN /\ hpc' = "panic"
            /\ hres' = HandlerResult("request", <<>>, payload.RequestID, FALSE, FALSE)
            /\ UNCHANGED <<records, queued, rstale, settled>>
       ELSE
       /\ hpc' = "return"
       /\ LET name == ResolveName(payload) IN
          IF records[name].exists
          THEN /\ hres' = HandlerResult("request", name, payload.RequestID, FALSE, TRUE)
               /\ UNCHANGED <<records, queued, rstale, settled>>
          ELSE /\ records' = [records EXCEPT ![name] = NewAppDeployment(payload, name)]
               /\ queued' = queued \cup {name}
               /\ rstale' = (rstale \/ ReconcilerHolds(name))
               /\ settled' = [settled EXCEPT ![name] = FALSE]
               /\ hres' = HandlerResult("request", name, payload.RequestID, FALSE, FALSE)

\* The spec that takes the version of the payload even when it is empty
\* (mutation of UpdatedSpec).
UpdatedSpecAlwaysVersion(spec, payload) ==
    [spec EXCEPT
        !.ChartVersion = payload.Version,
        !.Values = IF payload.Values.t # "nil" THEN payload.Values ELSE @]

\* The spec HandleDeploymentUpdate sends.
UpdatedSpec(spec, payload) ==
    [spec EXCEPT
        !.ChartVersion = IF payload.Version # "" THEN payload.Version ELSE @,
        !.Values = IF payload.Values.t # "nil" THEN payload.Values ELSE @]

\* HandleDeploymentUpdate up to its ownership check.  An update that would
\* take the generation past its bound is not started.
HandleDeploymentUpdateGet(payload) ==
    /\ UNCHANGED envVars
    /\ hpc = "idle"
    /\ UNCHANGED <<records, releases, mirror, queued, faults, pc, rname,
                   obj, rstale, loc, result, log, settled, unCalls, unFails>>
    /\ LET r == records[payload.Name] IN
       IF ~r.exists \/ r.Spec.TeamID # payload.TeamID
       THEN /\ hres' = HandlerResult("update", payload.Name, payload.RequestID, TRUE, r.exists)
            /\ hpc' = "return"
            /\ UNCHANGED <<hmsg, hstale>>
       ELSE /\ \/ r.Generation < MaxGeneration
               \/ UpdatedSpec(r.Spec, payload) = r.Spec
            /\ hpc' = "update"
            /\ hmsg' = payload
            /\ hstale' = FALSE
            /\ UNCHANGED hres

\* HandleDeploymentUpdate: client.Update of the changed copy.
HandleDeploymentUpdatePut ==
    /\ UNCHANGED envVars
    /\ hpc = "update"
    /\ UNCHANGED <<releases, mirror, faults, pc, rname, obj, loc, result,
                   log, unCalls, unFails>>
    /\ hpc' = "return"
    /\ hmsg' = NoPayload
    /\ hstale' = FALSE
    /\ IF hstale
       THEN /\ hres' = HandlerResult("update", hmsg.Name, hmsg.RequestID, TRUE, TRUE)
            /\ UNCHANGED <<records, queued, rstale, settled>>
       ELSE LET n == hmsg.Name
                r == records[n]
                spec2 == UpdatedSpec(r.Spec, hmsg)
                r2 == [r EXCEPT !.Spec = spec2,
                                !.Generation = IF spec2 # r.Spec THEN @ + 1 ELSE @]
            IN
            /\ records' = [records EXCEPT ![n] = r2]
            /\ queued' = IF r2 # r THEN queued \cup {n} ELSE queued
            /\ rstale' = (rstale \/ (ReconcilerHolds(n) /\ r2 # r))
            /\ settled' = [settled EXCEPT ![n] = IF r2 # r THEN FALSE ELSE @]
            /\ hres' = [HandlerResult("update", n, hmsg.RequestID, FALSE, TRUE)
                          EXCEPT !.noop = (r2 = r)]

\* HandleDeploymentDelete that deletes for any team (mutation of
\* HandleDeploymentDeleteGet).
HandleDeploymentDeleteGetAnyTeam(payload) ==
    /\ UNCHANGED envVars
    /\ hpc = "idle"
    /\ UNCHANGED <<records, releases, mirror, queued, faults, pc, rname,
                   obj, rstale, loc, result, log, settled, unCalls, unFails>>
    /\ LET r == records[payload.Name] IN
       IF ~r.exists
       THEN /\ hres' = HandlerResult("delete", payload.Name, payload.RequestID, FALSE, FALSE)
            /\ hpc' = "return"
            /\ UNCHANGED <<hmsg, hstale>>
       ELSE /\ hpc' = "delete"
            /\ hmsg' = payload
            /\ hstale' = FALSE
            /\ UNCHANGED hres

\* HandleDeploymentDelete that reports a record that is not found as an
\* error (mutation of HandleDeploymentDeleteGet).
HandleDeploymentDeleteGetNotFoundIsError(payload) ==
    /\ UNCHANGED envVars
    /\ hpc = "idle"
    /\ UNCHANGED <<records, releases, mirror, queued, faults, pc, rname,
                   obj, rstale, loc, result, log, settled, unCalls, unFails>>
    /\ LET r == records[payload.Name] IN
       IF ~r.exists \/ r.Spec.TeamID # payload.TeamID
       THEN /\ hres' = HandlerResult("delete", payload.Name, payload.RequestID, TRUE, r.exists)
            /\ hpc' = "return"
            /\ UNCHANGED <<hmsg, hstale>>
       ELSE /\ hpc' = "delete"
            /\ hmsg' = payload
            /\ hstale' = FALSE
            /\ UNCHANGED hres

\* HandleDeploymentDelete up to its ownership check.
HandleDeploymentDeleteGet(payload) ==
    /\ UNCHANGED envVars
    /\ hpc = "idle"
    /\ UNCHANGED <<records, releases, mirror, queued, faults, pc, rname,
                   obj, rstale, loc, result, log, settled, unCalls, unFails>>
    /\ LET r == records[payload.Name] IN
       IF ~r.exists
       THEN /\ hres' = HandlerResult("delete", payload.Name, payload.RequestID, FALSE, FALSE)
            /\ hpc' = "return"
            /\ UNCHANGED <<hmsg, hstale>>
       ELSE IF r.Spec.TeamID # payload.TeamID
       THEN /\ hres' = HandlerResult("delete", payload.Name, payload.RequestID, TRUE, TRUE)
            /\ hpc' = "return"
            /\ UNCHANGED <<hmsg, hstale>>
       ELSE /\ hpc' = "delete"
            /\ hmsg' = payload
            /\ hstale' = FALSE
            /\ UNCHANGED hres

\* HandleDeploymentDelete: client.Delete.  The API server sets the deletion
\* marker while a finalizer is present and removes the record otherwise.
HandleDeploymentDeleteCall ==
    /\ UNCHANGED envVars
    /\ hpc = "delete"
    /\ UNCHANGED <<releases, mirror, faults, pc, rname, obj, loc, result,
                   log, unCalls, unFails>>
    /\ hpc' = "return"
    /\ hmsg' = NoPayload
    /\ hstale' = FALSE
    /\ LET n == hmsg.Name
           r == records[n]
           r2 == IF ~r.exists THEN r
                 ELSE IF r.Finalizer THEN [r EXCEPT !.Deleting = TRUE]
                 ELSE NoRec
       IN
       /\ records' = [records EXCEPT ![n] = r2]
       /\ queued' = IF r2 # r THEN queued \cup {n} ELSE queued
       /\ rstale' = (rstale \/ (ReconcilerHolds(n) /\ r2 # r))
       /\ settled' = [settled EXCEPT ![n] = IF r2 # r THEN FALSE ELSE @]
       /\ hres' = HandlerResult("delete", n, hmsg.RequestID, FALSE, r.exists)

\* consume: the delivery is acked when the handler returned nil and nacked
\* with requeue otherwise; the loop then takes the next delivery.
Acknowledge ==
    /\ UNCHANGED envVars
    /\ hpc = "return"
    /\ hpc' = "idle"
    /\ hres' = NoResult
    /\ UNCHANGED <<records, releases, mirror, queued, faults, pc, rname,
                   obj, rstale, loc, result, log, hmsg, hstale, settled,
                   unCalls, unFails>>

\* ------------------------------------------------------------------------
\* Environment
\* ------------------------------------------------------------------------
\* spec.suspend is set or cleared on the record by its owner.
SetSuspend(n, b) ==
    /\ UNCHANGED envVars
    /\ records[n].exists
    /\ records[n].Spec.Suspend # b
    /\ records[n].Generation < MaxGeneration
    /\ records' = [records EXCEPT ![n].Spec.Suspend = b, ![n].Generation = @ + 1]
    /\ queued' = queued \cup {n}
    /\ rstale' = (rstale \/ ReconcilerHolds(n))
    /\ hstale' = (hstale \/ HandlerHolds(n))
    /\ settled' = [settled EXCEPT ![n] = FALSE]
    /\ UNCHANGED <<releases, mirror, faults, pc, rname, obj, loc, result,
                   log, hpc, hmsg, hres, unCalls, unFails>>

\* A pull of the chart repository changes which charts are local.
Pull ==
    /\ pulls < MaxPulls
    /\ pulls' = pulls + 1
    /\ UNCHANGED <<gvIn, gvOut, sync, hc, mq, ctl, lk>>
    /\ \E m \in SUBSET Charts : m # mirror /\ mirror' = m
    /\ settled' = [n \in Names |-> FALSE]
    /\ UNCHANGED <<records, releases, queued, faults, pc, rname, obj,
                   rstale, loc, result, log, hpc, hmsg, hstale, hres,
                   unCalls, unFails>>

\* The variables of the controller and the handler.
mainVars == <<records, releases, mirror, queued, faults, pc, rname, obj,
              rstale, loc, result, log, hpc, hmsg, hstale, hres, settled,
              unCalls, unFails>>

\* ------------------------------------------------------------------------
\* The shutdown context of the process and Consumer.Start: the loop that
\* connects, consumes and connects again, and the connection it uses.
\* ------------------------------------------------------------------------
MaxConnectFailures == 1
MaxCloses == 1

\* The process after NewConsumer, before Start is called.
CtlIdle ==
    [ctx |-> "live",    \* the context: live, done (cancelled)
     stop |-> FALSE,    \* c.done is closed (Stop was called)
     at |-> "off",      \* Start: off, top, connect, wait, consume, handle, returned
     conn |-> "none",   \* c.conn: none, open, closed (by the broker or network)
     cycle |-> "none",  \* steps of the cycle since the last failure or close
     seen |-> FALSE,    \* Start or consume has taken a ctx.Done() case
     ret |-> "none",    \* what Start returned: ctxErr, nil
     fails |-> 0,       \* connect attempts that failed
     closes |-> 0,      \* unexpected closes
     leaked |-> 0,      \* open connections c.conn no longer refers to
     stopAt |-> "none"] \* where Start was when Stop was called

CtlOthers == <<mainVars, gvIn, gvOut, pulls, sync, hc, mq, lk>>

\* The shutdown signal: the context is cancelled.
Cancel ==
    /\ ctl.ctx = "live"
    /\ ctl' = [ctl EXCEPT !.ctx = "done"]
    /\ UNCHANGED CtlOthers

\* go consumer.Start(ctx)
ConsumerStart ==
    /\ ctl.at = "off"
    /\ ctl' = [ctl EXCEPT !.at = "top"]
    /\ UNCHANGED CtlOthers

\* Start, head of the loop: return ctx.Err() when the context is done,
\* go on to connect otherwise (select with default).
StartSelect ==
    /\ ctl.at = "top"
    /\ ctl' = IF ctl.ctx = "done"
              THEN [ctl EXCEPT !.at = "returned", !.ret = "ctxErr", !.seen = TRUE]
              ELSE [ctl EXCEPT !.at = "connect"]
    /\ UNCHANGED CtlOthers

\* connect (dial, channel, QoS, exchange, queue, bindings) and, when it has
\* succeeded, the registration of consume: Start is in the consume loop.
\* amqp.Dial assigns c.conn, whatever it held: a connection that is still
\* open is no longer referred to.  When Dial fails c.conn is nil; when a
\* later step fails connect returns the error with the connection open.  A
\* failure of the registration is an error of consume: cleanup and back to
\* the head of the loop.
Connect ==
    /\ ctl.at = "connect"
    /\ \E outcome \in {"ok", "dialFails", "stepFails", "registerFails"} :
          /\ outcome # "ok" => ctl.fails < MaxConnectFailures
          /\ LET lost == ctl.leaked + (IF ctl.conn = "open" THEN 1 ELSE 0) IN
             ctl' = IF outcome = "ok"
                    THEN [ctl EXCEPT !.at = "consume", !.conn = "open",
                                     !.cycle = "declared", !.leaked = lost]
                    ELSE IF outcome = "dialFails"
                    THEN [ctl EXCEPT !.at = "wait", !.conn = "none",
                                     !.cycle = "failed", !.fails = @ + 1,
                                     !.leaked = lost]
                    ELSE IF outcome = "stepFails"
                    THEN [ctl EXCEPT !.at = "wait", !.conn = "open",
                                     !.cycle = "failed", !.fails = @ + 1,
                                     !.leaked = lost]
                    ELSE [ctl EXCEPT !.at = "top", !.conn = "none",
                                     !.cycle = "none", !.fails = @ + 1,
                                     !.leaked = lost]
    /\ UNCHANGED CtlOthers

\* Start that gives up when connect fails (mutation of WaitElapsed).
WaitGivesUp ==
    /\ ctl.at = "wait"
    /\ ctl' = [ctl EXCEPT !.at = "returned", !.ret = "nil"]
    /\ UNCHANGED CtlOthers

\* The wait after a failed connect: time.After(5 * time.Second) fires.
WaitElapsed ==
    /\ ctl.at = "wait"
    /\ ctl' = [ctl EXCEPT !.at = "top", !.cycle = "waited"]
    /\ UNCHANGED CtlOthers

\* The wait after a failed connect: ctx.Done() is taken.
WaitCancelled ==
    /\ ctl.at = "wait"
    /\ ctl.ctx = "done"
    /\ ctl' = [ctl EXCEPT !.at = "returned", !.ret = "ctxErr", !.seen = TRUE]
    /\ UNCHANGED CtlOthers

\* consume that goes on with the next delivery after the context is done
\* (mutation of ConsumeCancelled).
ConsumeIgnoresCancel ==
    /\ ctl.at = "consume"
    /\ ctl.ctx = "done"
    /\ ctl' = [ctl EXCEPT !.at = "handle"]
    /\ UNCHANGED CtlOthers

\* consume, case ctx.Done(): consume returns ctx.Err(), Start runs cleanup
\* and continues at the head of its loop.
ConsumeCancelled ==
    /\ ctl.at = "consume"
    /\ ctl.ctx = "done"
    /\ ctl' = [ctl EXCEPT !.at = "top", !.conn = "none", !.cycle = "none",
                          !.seen = TRUE]
    /\ UNCHANGED CtlOthers

\* consume, case c.done: consume returns nil and so does Start.
ConsumeStopped ==
    /\ ctl.at = "consume"
    /\ ctl.stop
    /\ ctl' = [ctl EXCEPT !.at = "returned", !.ret = "nil"]
    /\ UNCHANGED CtlOthers

\* consume, case connClose or a closed msgs channel: consume returns an
\* error, Start runs cleanup and continues at the head of its loop.
ConsumeClosed ==
    /\ ctl.at = "consume"
    /\ ctl.conn = "closed"
    /\ ctl' = [ctl EXCEPT !.at = "top", !.conn = "none", !.cycle = "none"]
    /\ UNCHANGED CtlOthers

\* consume, case msg: a delivery is taken from msgs.
TakeDelivery ==
    /\ ctl.at = "consume"
    /\ ctl.conn = "open"
    /\ ctl' = [ctl EXCEPT !.at = "handle", !.cycle = "consumed"]
    /\ UNCHANGED CtlOthers

\* handleMessage and the acknowledgement are done: back to the select.
DeliveryDone ==
    /\ ctl.at = "handle"
    /\ ctl' = [ctl EXCEPT !.at = "consume"]
    /\ UNCHANGED CtlOthers

\* The broker or the network closes the connection or the channel.
ConnectionLost ==
    /\ ctl.conn = "open"
    /\ ctl.closes < MaxCloses
    /\ ctl' = [ctl EXCEPT !.conn = "closed", !.closes = @ + 1]
    /\ UNCHANGED CtlOthers

\* Consumer.Stop: c.done is closed, cleanup closes channel and connection.
Stop ==
    /\ ctl.at # "off"
    /\ ~ctl.stop
    /\ ctl' = [ctl EXCEPT !.stop = TRUE,
                          !.stopAt = ctl.at,
                          !.conn = IF @ = "open" THEN "closed" ELSE @]
    /\ UNCHANGED CtlOthers

\* ------------------------------------------------------------------------
\* The chart Syncer: the local copy of the chart repository, the RWMutex
\* that guards it, the pulls that write it and the callers that read it.
\* ------------------------------------------------------------------------
\* Entries of the local path.  A name is a sequence of pieces; the first
\* piece of a hidden name is ".".
PostgresqlEntry == <<"postgresql">>
HiddenEntry == <<".", "ci">>
DescriptorEntry == <<"Chart.yaml">>
EntryNames == {PostgresqlEntry, HiddenEntry, DescriptorEntry}

\* What an entry is: absent, a plain file, a directory without Chart.yaml,
\* or a directory with Chart.yaml at its root ("chart").
EntryKinds(e) ==
    IF e = PostgresqlEntry THEN {"absent", "dir", "chart"}
    ELSE IF e = HiddenEntry THEN {"absent", "chart"}
    ELSE {"absent", "file"}

Trees == {t \in [EntryNames -> {"absent", "file", "dir", "chart"}] :
            \A e \in EntryNames : t[e] \in EntryKinds(e)}
EmptyTree == [e \in EntryNames |-> "absent"]

\* Names ChartExists is asked about: every entry, the empty name and the
\* name of no entry.
EmptyName == <<>>
QueryNames == EntryNames \cup {EmptyName, <<"mysql">>}

\* os.Stat(filepath.Join(localPath, name, "Chart.yaml")) succeeds; Join
\* drops an empty element, so the empty name asks for localPath/Chart.yaml.
StatChartYaml(tree, name) ==
    IF name = EmptyName THEN tree[DescriptorEntry] # "absent"
    ELSE name \in EntryNames /\ tree[name] = "chart"

\* Syncer.ChartExists on the tree.
ChartExistsIn(tree, name) == StatChartYaml(tree, name)

\* Syncer.ListCharts on the tree: directories, not hidden, with Chart.yaml.
ListChartsIn(tree) ==
    {e \in EntryNames :
        /\ tree[e] \in {"dir", "chart"}
        /\ Head(e) # "."
        /\ StatChartYaml(tree, e)}

\* No pull has finished yet.
NoPull == [who |-> "none", err |-> FALSE, reported |-> FALSE, changed |-> FALSE]

\* The Syncer after NewSyncer, on an empty local path.
SyncIdle ==
    [tree |-> EmptyTree,   \* the local copy
     git |-> FALSE,        \* localPath/.git exists
     repo |-> FALSE,       \* s.repo != nil
     writer |-> "none",    \* holder of s.mu.Lock
     todo |-> <<>>,        \* trees the writer still has to write, in order
     err |-> FALSE,        \* the writer's operation has failed
     before |-> EmptyTree, \* the local copy when the writer took the lock
     loop |-> "off",       \* periodicSync: off, on, stopped
     validator |-> "idle", \* the reconciler's query that holds s.mu.RLock
     helm |-> "idle",      \* the helm Client's read of the charts path
     out |-> NoPull]       \* outcome of the last pull that finished

SyncOthers == <<mainVars, gvIn, gvOut, pulls, hc, mq, ctl, lk>>

\* s.mu.Lock() can be taken: no writer and no holder of the read lock.
CanLock == sync.writer = "none" /\ sync.validator = "idle"

\* Syncer.Start up to the first write of initialSync: the lock is taken; an
\* existing repository is opened and pulled, and when that fails, or there
\* is none, the local path is removed and cloned again.
Start ==
    /\ sync.loop = "off"
    /\ CanLock
    /\ \E t \in Trees, openAndPullOk \in BOOLEAN, cloneOk \in BOOLEAN :
          LET reuse == sync.git /\ openAndPullOk
              wipe == IF sync.git THEN <<EmptyTree>> ELSE <<>>
          IN
          sync' = [sync EXCEPT
                      !.writer = "initialSync",
                      !.before = sync.tree,
                      !.repo = reuse,
                      !.todo = IF reuse THEN <<t>>
                               ELSE IF cloneOk THEN wipe \o <<t>>
                               ELSE wipe,
                      !.err = ~reuse /\ ~cloneOk]
    /\ UNCHANGED SyncOthers

\* pull as the periodic loop and ForceSync run it: the lock is taken and
\* the fetch either fails, finds nothing new or brings a new tree.
\* s.repo == nil is an error before anything else.
PullLock(who) ==
    /\ who \in {"periodicSync", "ForceSync"}
    /\ who = "periodicSync" => sync.loop = "on"
    /\ CanLock
    /\ \E t \in Trees, fetchOk \in BOOLEAN :
          LET ok == sync.repo /\ fetchOk IN
          sync' = [sync EXCEPT
                      !.writer = who,
                      !.before = sync.tree,
                      !.todo = IF ok THEN <<t>> ELSE <<>>,
                      !.err = ~ok]
    /\ UNCHANGED SyncOthers

\* The writer writes one entry of the tree it is working towards.
WriteEntry ==
    /\ sync.writer # "none"
    /\ sync.todo # <<>>
    /\ sync.tree # Head(sync.todo)
    /\ \E e \in EntryNames :
          /\ sync.tree[e] # Head(sync.todo)[e]
          /\ sync' = [sync EXCEPT !.tree[e] = Head(sync.todo)[e],
                                  !.git = IF Head(sync.todo) = EmptyTree
                                          THEN FALSE ELSE @]
    /\ UNCHANGED SyncOthers

\* The writer has reached the tree at the head of its list.
WriteDone ==
    /\ sync.writer # "none"
    /\ sync.todo # <<>>
    /\ sync.tree = Head(sync.todo)
    /\ sync' = [sync EXCEPT !.todo = Tail(sync.todo),
                            !.git = IF Head(sync.todo) = EmptyTree
                                    THEN FALSE ELSE @]
    /\ UNCHANGED SyncOthers

\* The pull returns and the lock is released: periodicSync logs an error and
\* goes on with the next tick, ForceSync returns it to its caller.
PullUnlock ==
    /\ sync.writer \in {"periodicSync", "ForceSync"}
    /\ sync.todo = <<>>
    /\ sync' = [sync EXCEPT
                   !.writer = "none",
                   !.err = FALSE,
                   !.out = [who |-> sync.writer, err |-> sync.err,
                            reported |-> sync.err /\ sync.writer = "ForceSync",
                            changed |-> sync.tree # sync.before]]
    /\ UNCHANGED SyncOthers

\* Start that starts the periodic loop whatever initialSync returned
\* (mutation of StartUnlock).
StartUnlockAlwaysLoops ==
    /\ sync.writer = "initialSync"
    /\ sync.todo = <<>>
    /\ sync' = [sync EXCEPT
                   !.writer = "none",
                   !.err = FALSE,
                   !.git = ~sync.err,
                   !.repo = ~sync.err,
                   !.loop = "on",
                   !.out = [who |-> "initialSync", err |-> sync.err,
                            reported |-> sync.err,
                            changed |-> sync.tree # sync.before]]
    /\ UNCHANGED SyncOthers

\* initialSync returns and the lock is released; Start starts the periodic
\* loop unless initialSync returned an error.
StartUnlock ==
    /\ sync.writer = "initialSync"
    /\ sync.todo = <<>>
    /\ sync' = [sync EXCEPT
                   !.writer = "none",
                   !.err = FALSE,
                   !.git = ~sync.err,
                   !.repo = ~sync.err,
                   !.loop = IF sync.err THEN "off" ELSE "on",
                   !.out = [who |-> "initialSync", err |-> sync.err,
                            reported |-> sync.err,
                            changed |-> sync.tree # sync.before]]
    /\ UNCHANGED SyncOthers

\* periodicSync, case ctx.Done(): the loop returns.  The loop is at its
\* select, not inside a pull.
StopLoop ==
    /\ sync.loop = "on"
    /\ ctl.ctx = "done"
    /\ sync.writer # "periodicSync"
    /\ sync' = [sync EXCEPT !.loop = "stopped"]
    /\ UNCHANGED SyncOthers

\* The process starts again on the same local path with a new Syncer.
Restart ==
    /\ sync.loop = "stopped"
    /\ sync.writer = "none"
    /\ sync.validator = "idle"
    /\ sync.helm = "idle"
    /\ sync' = [sync EXCEPT !.loop = "off", !.repo = FALSE, !.out = NoPull]
    /\ ctl' = CtlIdle
    /\ UNCHANGED <<mainVars, gvIn, gvOut, pulls, hc, mq, lk>>

\* ChartExists or ListCharts called by the reconciler: s.mu.RLock() is
\* taken, which waits while a writer holds the lock.
ValidatorRLock(query) ==
    /\ query \in {"ChartExists", "ListCharts"}
    /\ sync.validator = "idle"
    /\ sync.writer = "none"
    /\ sync' = [sync EXCEPT !.validator = query]
    /\ UNCHANGED SyncOthers

\* The query has read the tree and returns: s.mu.RUnlock().
ValidatorRUnlock ==
    /\ sync.validator # "idle"
    /\ sync' = [sync EXCEPT !.validator = "idle"]
    /\ UNCHANGED SyncOthers

\* Install or Upgrade of the helm Client reaches locateChart: os.Stat on
\* the charts path.  The Client takes its own mutex and no lock of the
\* Syncer.
HelmLocateChart ==
    /\ sync.helm = "idle"
    /\ sync' = [sync EXCEPT !.helm = "locateChart"]
    /\ UNCHANGED SyncOthers

\* loader.Load reads the chart directory.
HelmLoad ==
    /\ sync.helm = "locateChart"
    /\ sync' = [sync EXCEPT !.helm = "Load"]
    /\ UNCHANGED SyncOthers

\* The chart is loaded; the call goes on without the charts path.
HelmLoaded ==
    /\ sync.helm = "Load"
    /\ sync' = [sync EXCEPT !.helm = "idle"]
    /\ UNCHANGED SyncOthers

NextMirror ==
    \/ Cancel
    \/ Start
    \/ \E who \in {"periodicSync", "ForceSync"} : PullLock(who)
    \/ WriteEntry
    \/ WriteDone
    \/ PullUnlock
    \/ StartUnlock
    \/ StopLoop
    \/ Restart
    \/ \E query \in {"ChartExists", "ListCharts"} : ValidatorRLock(query)
    \/ ValidatorRUnlock
    \/ HelmLocateChart
    \/ HelmLoad
    \/ HelmLoaded

\* ------------------------------------------------------------------------
\* The helm Client under concurrent callers: every goroutine of the process
\* may call Install, Upgrade or Uninstall for any release.
\* ------------------------------------------------------------------------
MaxGoroutines == 2
Goroutines == 1..MaxGoroutines

\* Releases (name and namespace) of the release store the Client works on.
HelmTargets == {<<"pg-a", "ns1">>, <<"pg-b", "ns2">>}
ClientOps == {"Install", "Upgrade", "Uninstall"}

\* A goroutine that is in no call of the Client.
NoCall == [op |-> "none", at |-> "idle", target |-> <<>>, found |-> FALSE,
           fault |-> FALSE, err |-> FALSE]

\* The Client after NewClient, with an empty release store.
HcIdle ==
    [mu |-> 0,                                  \* holder of c.mu, 0: free
     call |-> [g \in Goroutines |-> NoCall],    \* the call of each goroutine
     store |-> [t \in HelmTargets |-> FALSE]]   \* the release exists

HcOthers == <<mainVars, gvIn, gvOut, pulls, sync, mq, ctl, lk>>

\* Goroutine g calls op for a release and reaches c.mu.Lock().
ClientCall(g, op, target) ==
    /\ hc.call[g].at = "idle"
    /\ hc' = [hc EXCEPT !.call[g] = [NoCall EXCEPT !.op = op, !.at = "Lock",
                                                   !.target = target]]
    /\ UNCHANGED HcOthers

\* c.mu.Lock() that returns at once, whoever holds the mutex (mutation of
\* ClientLock).
ClientLockNoWait(g) ==
    /\ hc.call[g].at = "Lock"
    /\ hc' = [hc EXCEPT !.mu = g, !.call[g].at = "body"]
    /\ UNCHANGED HcOthers

\* c.mu.Lock() returns: the mutex was free and g holds it now.
ClientLock(g) ==
    /\ hc.call[g].at = "Lock"
    /\ hc.mu = 0
    /\ hc' = [hc EXCEPT !.mu = g, !.call[g].at = "body"]
    /\ UNCHANGED HcOthers

\* The error of the helm action: Install of a release that exists, Upgrade
\* or Uninstall of one that does not (Uninstall leaves IgnoreNotFound
\* unset and returns every error of the action), or a fault of the cluster.
ClientErr(op, found, fault) ==
    \/ fault
    \/ op = "Install" /\ found
    \/ op \in {"Upgrade", "Uninstall"} /\ ~found

\* The body of Install, Upgrade or Uninstall up to its return statement.
ClientRun(g) ==
    /\ hc.call[g].at = "body"
    /\ \E fault \in BOOLEAN :
          LET c == hc.call[g]
              found == hc.store[c.target]
              err == ClientErr(c.op, found, fault)
          IN
          hc' = [hc EXCEPT
                    !.call[g].at = "return",
                    !.call[g].found = found,
                    !.call[g].fault = fault,
                    !.call[g].err = err,
                    !.store[c.target] =
                        IF err THEN @ ELSE c.op # "Uninstall"]
    /\ UNCHANGED HcOthers

\* The call returns; the deferred c.mu.Unlock() runs.
ClientReturn(g) ==
    /\ hc.call[g].at = "return"
    /\ hc' = [hc EXCEPT !.mu = 0, !.call[g] = NoCall]
    /\ UNCHANGED HcOthers

NextClient ==
    \/ \E g \in Goroutines, op \in ClientOps, target \in HelmTargets :
          ClientCall(g, op, target)
    \/ \E g \in Goroutines : ClientLock(g)
    \/ \E g \in Goroutines : ClientRun(g)
    \/ \E g \in Goroutines : ClientReturn(g)

\* ------------------------------------------------------------------------
\* The two locks of the process: s.mu of the Syncer (sync.RWMutex) and c.mu
\* of the helm Client (sync.Mutex), under concurrent reconcile workers, the
\* periodic pull and ForceSync.  A worker runs the calls of a pass one after
\* the other: ChartExists, then ListCharts when the chart is missing, or
\* Install or Upgrade when it is there; Uninstall in the pass of a deletion.
\* ------------------------------------------------------------------------
MirrorWriters == {"periodicSync", "ForceSync"}

\* A worker in no call that takes a lock.
NoLockCall == [at |-> "idle", call |-> "none"]

LkIdle ==
    [readers |-> {},        \* holders of s.mu.RLock
     writer |-> "none",     \* holder of s.mu.Lock
     pending |-> {},        \* writers that wait in s.mu.Lock()
     mu |-> 0,              \* holder of c.mu, 0: free
     failed |-> FALSE,      \* a call that held a lock has returned an error
     work |-> [g \in Goroutines |-> NoLockCall]]

LkOthers == <<mainVars, gvIn, gvOut, pulls, sync, hc, mq, ctl>>

\* reconcileHelm of worker g calls ChartValidator.ChartExists.
PassValidate(g) ==
    /\ lk.work[g].at = "idle"
    /\ lk' = [lk EXCEPT !.work[g] = [at |-> "RLock", call |-> "ChartExists"]]
    /\ UNCHANGED LkOthers

\* reconcileDelete of worker g calls Uninstall (ReleaseExists takes no lock).
PassUninstall(g) ==
    /\ lk.work[g].at = "idle"
    /\ lk' = [lk EXCEPT !.work[g] = [at |-> "Lock", call |-> "Uninstall"]]
    /\ UNCHANGED LkOthers

\* s.mu.RLock() returns: no writer holds the lock and none waits for it.
MirrorRLock(g) ==
    /\ lk.work[g].at = "RLock"
    /\ lk.writer = "none"
    /\ lk.pending = {}
    /\ lk' = [lk EXCEPT !.readers = @ \cup {g}, !.work[g].at = "read"]
    /\ UNCHANGED LkOthers

\* ChartExists that returns with the read lock held (mutation of
\* MirrorRUnlock).
MirrorRUnlockForgotten(g, found, next) ==
    /\ lk.work[g].at = "read"
    /\ lk.work[g].call = "ChartExists"
    /\ found
    /\ next \in {"Install", "Upgrade"}
    /\ lk' = [lk EXCEPT !.work[g] = [at |-> "Lock", call |-> next]]
    /\ UNCHANGED LkOthers

\* ChartExists or ListCharts returns and the deferred s.mu.RUnlock() runs.
\* After ChartExists the pass goes on with ListCharts when the chart is
\* missing, and with Install, Upgrade or no further call under a lock
\* (next = "none": values error, GetRelease error, release up to date) when
\* it is there; after ListCharts the pass writes the failure.
MirrorRUnlock(g, found, next) ==
    /\ lk.work[g].at = "read"
    /\ next \in {"Install", "Upgrade", "none"}
    /\ lk' = [lk EXCEPT
                 !.readers = @ \ {g},
                 !.work[g] =
                     IF lk.work[g].call = "ListCharts" THEN NoLockCall
                     ELSE IF ~found
                     THEN [at |-> "RLock", call |-> "ListCharts"]
                     ELSE IF next = "none" THEN NoLockCall
                     ELSE [at |-> "Lock", call |-> next]]
    /\ UNCHANGED LkOthers

\* c.mu.Lock() of Install, Upgrade or Uninstall returns.
HelmLock(g) ==
    /\ lk.work[g].at = "Lock"
    /\ lk.mu = 0
    /\ lk' = [lk EXCEPT !.mu = g, !.work[g].at = "body"]
    /\ UNCHANGED LkOthers

\* The call reaches a return statement, with an error (getActionConfig,
\* locateChart, loader.Load or the action has failed) or without, and the
\* deferred c.mu.Unlock() runs.
HelmUnlock(g, err) ==
    /\ lk.work[g].at = "body"
    /\ lk' = [lk EXCEPT !.mu = 0, !.work[g] = NoLockCall,
                         !.failed = @ \/ err]
    /\ UNCHANGED LkOthers

\* The tick of periodicSync or a call of ForceSync reaches s.mu.Lock().
MirrorLockCall(w) ==
    /\ w \in MirrorWriters
    /\ w \notin lk.pending
    /\ lk.writer # w
    /\ lk' = [lk EXCEPT !.pending = @ \cup {w}]
    /\ UNCHANGED LkOthers

\* s.mu.Lock() returns: no reader and no writer holds the lock.
MirrorLock(w) ==
    /\ w \in lk.pending
    /\ lk.writer = "none"
    /\ lk.readers = {}
    /\ lk' = [lk EXCEPT !.writer = w, !.pending = @ \ {w}]
    /\ UNCHANGED LkOthers

\* pull has returned, with an error or without, and s.mu.Unlock() runs: the
\* readers that wait in RLock are let in before the next writer.
MirrorUnlock(w, err) ==
    /\ lk.writer = w
    /\ lk.writer # "none"
    /\ LET waiting == {g \in Goroutines : lk.work[g].at = "RLock"} IN
       lk' = [lk EXCEPT
                 !.writer = "none",
                 !.failed = @ \/ err,
                 !.readers = waiting,
                 !.work = [g \in Goroutines |->
                              IF g \in waiting THEN [@[g] EXCEPT !.at = "read"]
                              ELSE @[g]]]
    /\ UNCHANGED LkOthers

NextLocks ==
    \/ \E g \in Goroutines : PassValidate(g)
    \/ \E g \in Goroutines : PassUninstall(g)
    \/ \E g \in Goroutines : MirrorRLock(g)
    \/ \E g \in Goroutines, found \in BOOLEAN, next \in {"Install", "Upgrade", "none"} :
          MirrorRUnlock(g, found, next)
    \/ \E g \in Goroutines : HelmLock(g)
    \/ \E g \in Goroutines, err \in BOOLEAN : HelmUnlock(g, err)
    \/ \E w \in MirrorWriters : MirrorLockCall(w)
    \/ \E w \in MirrorWriters : MirrorLock(w)
    \/ \E w \in MirrorWriters, err \in BOOLEAN : MirrorUnlock(w, err)

\* ------------------------------------------------------------------------
\* The message consumer: the queue of the broker, the delivery the consume
\* loop works on and the acknowledgement it sends for it.
\* ------------------------------------------------------------------------
\* Messages handleMessage returns an error for without calling a handler: a
\* body that is no JSON ("malformed"), an envelope of an unknown type, and
\* an envelope of a known type whose payload does not unmarshal (NoPayload).
RejectedMessages ==
    {[type |-> "malformed", payload |-> NoPayload],
     [type |-> "unknown", payload |-> NoPayload],
     [type |-> "deployment.update", payload |-> NoPayload]}

\* Messages that are published: one of each type for the record of ReqIdA
\* and the messages that are rejected.
Messages ==
    {[type |-> "deployment.request", payload |-> p] :
        p \in {q \in DeploymentRequests : q.RequestID = ReqIdA}}
    \cup {[type |-> "deployment.update", payload |-> p] : p \in DeploymentUpdates}
    \cup {[type |-> "deployment.delete", payload |-> p] : p \in DeploymentDeletes}
    \cup RejectedMessages

NoMessage == [type |-> "none", payload |-> NoPayload]

\* The broker and the consumer before anything is published.
MqIdle ==
    [ready |-> {},           \* messages in the queue
     published |-> {},       \* messages that were ever published
     removed |-> {},         \* messages the broker removed on an Ack
     inflight |-> NoMessage, \* msg: the delivery taken from the channel
     ran |-> FALSE,          \* handleMessage has returned for the delivery
     failed |-> FALSE,       \* ... and returned an error
     answers |-> <<>>]       \* acknowledgements sent for the delivery

MqOthers == <<mainVars, gvIn, gvOut, pulls, sync, hc, ctl, lk>>

\* A publisher sends a message to the exchange; it is routed to the queue.
Publish(m) ==
    /\ m \notin mq.published
    /\ mq' = [mq EXCEPT !.ready = @ \cup {m}, !.published = @ \cup {m}]
    /\ UNCHANGED MqOthers

\* consume: the loop takes the next delivery from msgs.
Deliver(m) ==
    /\ hpc = "idle"
    /\ mq.inflight = NoMessage
    /\ m \in mq.ready
    /\ mq' = [mq EXCEPT !.ready = @ \ {m}, !.inflight = m, !.ran = FALSE,
                        !.failed = FALSE, !.answers = <<>>]
    /\ UNCHANGED MqOthers

\* The delivery handleMessage is about to dispatch.
Dispatched(type, payload) ==
    /\ mq.inflight = [type |-> type, payload |-> payload]
    /\ ~mq.ran

\* handleMessage that logs what it cannot dispatch and returns no error
\* (mutation of HandleMessageReject).
HandleMessageRejectLogged ==
    /\ hpc = "idle"
    /\ mq.inflight \in RejectedMessages
    /\ ~mq.ran
    /\ hpc' = "return"
    /\ hres' = HandlerResult("rejected", <<>>, <<>>, FALSE, FALSE)
    /\ UNCHANGED <<records, releases, mirror, queued, faults, pc, rname, obj,
                   rstale, loc, result, log, hmsg, hstale, settled, unCalls,
                   unFails>>
    /\ UNCHANGED envVars

\* handleMessage on a body or payload that does not unmarshal, or on an
\* envelope of an unknown type: an error, no handler is called.
HandleMessageReject ==
    /\ hpc = "idle"
    /\ mq.inflight \in RejectedMessages
    /\ ~mq.ran
    /\ hpc' = "return"
    /\ hres' = HandlerResult("rejected", <<>>, <<>>, TRUE, FALSE)
    /\ UNCHANGED <<records, releases, mirror, queued, faults, pc, rname, obj,
                   rstale, loc, result, log, hmsg, hstale, settled, unCalls,
                   unFails>>
    /\ UNCHANGED envVars

\* consume that acks every delivery, whatever handleMessage returned
\* (mutation of Answer).
AnswerAlwaysAck ==
    /\ hpc = "return"
    /\ mq.inflight # NoMessage
    /\ ~mq.ran
    /\ mq' = [mq EXCEPT
                 !.ran = TRUE,
                 !.failed = hres.err,
                 !.answers = Append(@, "Ack"),
                 !.removed = @ \cup {mq.inflight}]
    /\ UNCHANGED MqOthers

\* consume after handleMessage has returned: Nack with requeue on an error,
\* Ack otherwise.  A message that is nacked goes back to the queue, one that
\* is acked is removed.
Answer ==
    /\ hpc = "return"
    /\ mq.inflight # NoMessage
    /\ ~mq.ran
    /\ mq' = [mq EXCEPT
                 !.ran = TRUE,
                 !.failed = hres.err,
                 !.answers = Append(@, IF hres.err THEN "Nack" ELSE "Ack"),
                 !.ready = IF hres.err THEN @ \cup {mq.inflight} ELSE @,
                 !.removed = IF hres.err THEN @ ELSE @ \cup {mq.inflight}]
    /\ UNCHANGED MqOthers

\* The loop goes back to its select: the delivery is done with.
NextDelivery ==
    /\ hpc = "idle"
    /\ mq.inflight # NoMessage
    /\ mq.ran
    /\ mq' = [mq EXCEPT !.inflight = NoMessage, !.ran = FALSE,
                        !.failed = FALSE, !.answers = <<>>]
    /\ UNCHANGED MqOthers

\* handleMessage dispatches the delivery to the handler of its type.
DispatchRequest(p) ==
    Dispatched("deployment.request", p) /\ HandleDeploymentRequest(p)

DispatchUpdate(p) ==
    Dispatched("deployment.update", p) /\ HandleDeploymentUpdateGet(p)

DispatchDelete(p) ==
    Dispatched("deployment.delete", p) /\ HandleDeploymentDeleteGet(p)

\* The acknowledgement is sent; the iteration of the loop ends.
Answered == mq.ran /\ Acknowledge

NextConsumer ==
    \/ \E m \in Messages : Publish(m)
    \/ \E m \in Messages : Deliver(m)
    \/ \E p \in DeploymentRequests : DispatchRequest(p)
    \/ \E p \in DeploymentUpdates : DispatchUpdate(p)
    \/ HandleDeploymentUpdatePut
    \/ \E p \in DeploymentDeletes : DispatchDelete(p)
    \/ HandleDeploymentDeleteCall
    \/ HandleMessageReject
    \/ Answer
    \/ Answered
    \/ NextDelivery

\* ------------------------------------------------------------------------
\* Specification of the controller with the handler
\* ------------------------------------------------------------------------
GvIdle == [cluster |-> MainCluster, refs |-> <<>>, values |-> NilValues]
GvNone == [done |-> FALSE, err |-> FALSE, values |-> EmptyMap]

\* The state after construction, the getValues evaluation aside: the initial
\* clone has left the charts the repository holds, with or without the
\* chart of the application.
InitController ==
    /\ records = [n \in Names |-> NoRec]
    /\ releases = [n \in Names |-> NoRelease]
    /\ queued = {}
    /\ faults = [n \in Names |-> 0]
    /\ pc = "idle"
    /\ rname = CHOOSE n \in Names : TRUE
    /\ obj = NoRec
    /\ rstale = FALSE
    /\ loc = EmptyLoc
    /\ result = ResNone
    /\ log = EmptyLog
    /\ hpc = "idle"
    /\ hmsg = NoPayload
    /\ hstale = FALSE
    /\ hres = NoResult
    /\ settled = [n \in Names |-> FALSE]
    /\ unCalls = [n \in Names |-> 0]
    /\ unFails = [n \in Names |-> 0]
    /\ pulls = 0
    /\ sync = SyncIdle
    /\ hc = HcIdle
    /\ mq = MqIdle
    /\ ctl = CtlIdle
    /\ lk = LkIdle

InitMain ==
    /\ InitController
    /\ mirror \in SUBSET Charts

Init ==
    /\ InitMain
    /\ gvIn = GvIdle
    /\ gvOut = GvNone

Next ==
    \/ \E n \in Names : Reconcile(n)
    \/ AddFinalizer
    \/ SetInstalling
    \/ Install
    \/ SetUpgrading
    \/ Upgrade
    \/ WriteDeployed
    \/ WriteFailed
    \/ DeleteSetPhase
    \/ Uninstall
    \/ RemoveFinalizer
    \/ Requeue
    \/ \E p \in DeploymentRequests : HandleDeploymentRequest(p)
    \/ \E p \in DeploymentUpdates : HandleDeploymentUpdateGet(p)
    \/ HandleDeploymentUpdatePut
    \/ \E p \in DeploymentDeletes : HandleDeploymentDeleteGet(p)
    \/ HandleDeploymentDeleteCall
    \/ Acknowledge
    \/ \E n \in Names, b \in BOOLEAN : SetSuspend(n, b)

Spec == Init /\ [][Next]_vars

\* The controller and the handler next to the periodic sync of the chart
\* repository, which changes the chart directory while passes run.
NextSync ==
    \/ Next
    \/ Pull

SpecSync == Init /\ [][NextSync]_vars

\* ------------------------------------------------------------------------
\* The controller under fair scheduling: the manager's worker keeps taking
\* requests from the work queue and every call of a pass returns, so a step
\* of the reconciler that stays possible is taken.
\* ------------------------------------------------------------------------
ReconcilerNext ==
    \/ \E n \in Names : Reconcile(n)
    \/ AddFinalizer
    \/ SetInstalling
    \/ Install
    \/ SetUpgrading
    \/ Upgrade
    \/ WriteDeployed
    \/ WriteFailed
    \/ DeleteSetPhase
    \/ Uninstall
    \/ RemoveFinalizer
    \/ Requeue

\* The controller and the handler with spec.suspend left as it is.
NextCleanup ==
    \/ \E n \in Names : Reconcile(n)
    \/ AddFinalizer
    \/ SetInstalling
    \/ Install
    \/ SetUpgrading
    \/ Upgrade
    \/ WriteDeployed
    \/ WriteFailed
    \/ DeleteSetPhase
    \/ Uninstall
    \/ RemoveFinalizer
    \/ Requeue
    \/ \E p \in DeploymentRequests : HandleDeploymentRequest(p)
    \/ \E p \in DeploymentUpdates : HandleDeploymentUpdateGet(p)
    \/ HandleDeploymentUpdatePut
    \/ \E p \in DeploymentDeletes : HandleDeploymentDeleteGet(p)
    \/ HandleDeploymentDeleteCall
    \/ Acknowledge

FairSpec == Init /\ [][NextCleanup]_vars /\ WF_vars(ReconcilerNext)

\* The controller and the handler, spec.suspend left as it is, with no
\* assumption on scheduling.
SpecPass == Init /\ [][NextCleanup]_vars

\* The same with a repository that can hold a second chart.
InitCatalog ==
    /\ InitController
    /\ mirror \in SUBSET CatalogCharts
    /\ gvIn = GvIdle
    /\ gvOut = GvNone

SpecCatalog == InitCatalog /\ [][NextCleanup]_vars

\* The controller and the handler with requests and updates of every shape,
\* and no deletion.
NextUpdate ==
    \/ \E n \in Names : Reconcile(n)
    \/ AddFinalizer
    \/ SetInstalling
    \/ Install
    \/ SetUpgrading
    \/ Upgrade
    \/ WriteDeployed
    \/ WriteFailed
    \/ Requeue
    \/ \E p \in DeploymentRequests : HandleDeploymentRequest(p)
    \/ \E p \in UpdatePayloads : HandleDeploymentUpdateGet(p)
    \/ HandleDeploymentUpdatePut
    \/ Acknowledge

SpecUpdate == Init /\ [][NextUpdate]_vars

\* ------------------------------------------------------------------------
\* getValues as a function: the namespace holds a fixed set of ConfigMaps
\* and Secrets, the record's valuesFrom and values are drawn from bounded
\* sets, and one step evaluates getValues.
\* ------------------------------------------------------------------------
TreeBase == [replicas |-> Scalar("1"), size |-> Scalar("1Gi")]
TreeReplicas == [replicas |-> Scalar("3")]
TreeNested ==
    [persistence |-> Map([size |-> Scalar("1Gi"), replicas |-> Scalar("1")])]
TreeNestedSize == [persistence |-> Map([size |-> Scalar("2Gi")])]
TreeFlat == [persistence |-> Scalar("off"), size |-> Scalar("2Gi")]
TreeDeep ==
    [persistence |-> Map([size |-> Map([replicas |-> Scalar("3")])])]

ValuesCluster ==
    [ConfigMap |->
        ("base" :> (ValuesKeyDefault :> Doc(TreeBase)))
        @@ ("nested" :> (ValuesKeyDefault :> Doc(TreeNested)
                         @@ "size" :> Doc(TreeNestedSize)))
        @@ ("broken" :> (ValuesKeyDefault :> BadDoc)),
     Secret |->
        ("flat" :> (ValuesKeyDefault :> Doc(TreeFlat)))
        @@ ("deep" :> (ValuesKeyDefault :> Doc(TreeDeep)))]

\* The references a record's valuesFrom is drawn from.
RefPool ==
    { Ref("ConfigMap", "base", "", FALSE),
      Ref("ConfigMap", "nested", "", FALSE),
      Ref("ConfigMap", "nested", "size", FALSE),
      Ref("ConfigMap", "broken", "", TRUE),
      Ref("ConfigMap", "missing", "", TRUE),
      Ref("ConfigMap", "missing", "", FALSE),
      Ref("Secret", "flat", "", FALSE),
      Ref("Secret", "deep", "", TRUE),
      Ref("Deployment", "base", "", TRUE) }

RefSeqs == UNION {[1..k -> RefPool] : k \in 0..MaxRefs}

SpecValuesPool ==
    {NilValues, BadDoc} \cup
    {Doc(t) : t \in {EmptyMap, TreeBase, TreeReplicas, TreeNested,
                     TreeNestedSize, TreeFlat, TreeDeep}}

InitValues ==
    /\ InitMain
    /\ gvIn \in [cluster : {ValuesCluster}, refs : RefSeqs, values : SpecValuesPool]
    /\ gvOut = GvNone

\* One evaluation of getValues on the drawn record.
GetValues ==
    /\ ~gvOut.done
    /\ LET v == getValues(gvIn.cluster,
                          [ValuesFrom |-> gvIn.refs, Values |-> gvIn.values])
       IN gvOut' = [done |-> TRUE, err |-> v.err, values |-> v.values]
    /\ UNCHANGED <<records, releases, mirror, queued, faults, pc, rname,
                   obj, rstale, loc, result, log, hpc, hmsg, hstale, hres,
                   settled, unCalls, unFails, gvIn, pulls, sync, hc, mq, ctl, lk>>

NextValues == GetValues

SpecValues == InitValues /\ [][NextValues]_vars

\* ------------------------------------------------------------------------
\* The controller on records the user has created with valuesFrom
\* references, some of which cannot be read: the object is missing, the key
\* is missing, the kind is neither ConfigMap nor Secret, or the content is no
\* JSON object.
\* ------------------------------------------------------------------------
UnreadableRefs(optional) ==
    { Ref("ConfigMap", "missing", "", optional),
      Ref("ConfigMap", "base", "absent", optional),
      Ref("Deployment", "base", "", optional),
      Ref("ConfigMap", "broken", "", optional) }

RefCases ==
    {<<ref>> : ref \in UnreadableRefs(FALSE)}
    \cup { <<Ref("ConfigMap", "missing", "", TRUE), Ref("ConfigMap", "base", "", FALSE)>>,
           <<Ref("ConfigMap", "base", "", FALSE), Ref("ConfigMap", "broken", "", TRUE)>>,
           <<Ref("ConfigMap", "base", "absent", TRUE), Ref("Deployment", "base", "", TRUE)>>,
           <<Ref("ConfigMap", "broken", "", TRUE), Ref("Deployment", "base", "", FALSE)>> }

RefsRecord(name, refs) ==
    LET p == CHOOSE q \in DeploymentRequests : q.TeamID = "t1"
        r == NewAppDeployment(p, name)
    IN [r EXCEPT !.Spec.ValuesFrom = refs]

InitRefs ==
    /\ \E refs \in RefCases : records = [n \in Names |-> RefsRecord(n, refs)]
    /\ releases = [n \in Names |-> NoRelease]
    /\ mirror = Charts
    /\ queued = Names
    /\ faults = [n \in Names |-> 0]
    /\ pc = "idle"
    /\ rname = CHOOSE n \in Names : TRUE
    /\ obj = NoRec
    /\ rstale = FALSE
    /\ loc = EmptyLoc
    /\ result = ResNone
    /\ log = EmptyLog
    /\ hpc = "idle"
    /\ hmsg = NoPayload
    /\ hstale = FALSE
    /\ hres = NoResult
    /\ settled = [n \in Names |-> FALSE]
    /\ unCalls = [n \in Names |-> 0]
    /\ unFails = [n \in Names |-> 0]
    /\ pulls = 0
    /\ sync = SyncIdle
    /\ hc = HcIdle
    /\ mq = MqIdle
    /\ ctl = CtlIdle
    /\ lk = LkIdle
    /\ gvIn = [GvIdle EXCEPT !.cluster = ValuesCluster]
    /\ gvOut = GvNone

SpecRefs == InitRefs /\ [][NextUpdate]_vars

\* ------------------------------------------------------------------------
\* hashValues on Go maps.  A Go map yields its keys in an order that depends
\* on how it was filled and on the seed of the process run; json.Marshal
\* collects the keys in that order and sorts them before it writes them.
\* ------------------------------------------------------------------------
\* The orders in which a map can yield its keys.
KeyOrders ==
    {o \in [1..Len(SortedKeys) -> {SortedKeys[i] : i \in 1..Len(SortedKeys)}] :
        \A i, j \in 1..Len(SortedKeys) : i # j => o[i] # o[j]}

\* The keys of m as the map yields them under the order o.
mapKeys(m, o) == SelectSeq(o, LAMBDA k : k \in DOMAIN m)

\* The keys written as they were collected (mutation of sortKeys).
sortKeysNone(keys) == keys

\* encoding/json sorts the keys it has collected.
sortKeys(keys) ==
    SelectSeq(SortedKeys, LAMBDA k : \E i \in 1..Len(keys) : keys[i] = k)

\* json.Marshal of the map m that yields its keys in the order o.
RECURSIVE marshalKeys(_, _, _, _)
RECURSIVE marshalMap(_, _)
marshalKeys(m, o, keys, i) ==
    IF i > Len(keys) THEN <<>>
    ELSE LET k == keys[i] IN
         <<k>> \o (IF IsMap(m[k]) THEN marshalMap(m[k].m, o) ELSE <<m[k].v>>)
             \o marshalKeys(m, o, keys, i + 1)
marshalMap(m, o) ==
    <<"{">> \o marshalKeys(m, o, sortKeys(mapKeys(m, o)), 1) \o <<"}">>

\* hashValues in a process run whose maps yield their keys in the order o.
hashValuesRun(values, o) == <<"sha256">> \o marshalMap(values, o)

\* Two evaluations of getValues and hashValues: the second one merges the
\* references in the opposite order when swap is set, and each has its own
\* key order.
InitHash ==
    /\ InitMain
    /\ gvIn \in [cluster : {ValuesCluster}, refs : RefSeqs, values : {NilValues},
                  swap : BOOLEAN, order : KeyOrders, order2 : KeyOrders]
    /\ gvOut = GvNone

Reversed(refs) == [i \in 1..Len(refs) |-> refs[Len(refs) + 1 - i]]

HashValues ==
    /\ ~gvOut.done
    /\ LET refs2 == IF gvIn.swap THEN Reversed(gvIn.refs) ELSE gvIn.refs
           v == getValues(gvIn.cluster,
                          [ValuesFrom |-> gvIn.refs, Values |-> gvIn.values])
           v2 == getValues(gvIn.cluster,
                           [ValuesFrom |-> refs2, Values |-> gvIn.values])
       IN gvOut' = [done |-> TRUE, err |-> v.err \/ v2.err,
                    values |-> v.values, values2 |-> v2.values,
                    hash |-> hashValuesRun(v.values, gvIn.order),
                    hash2 |-> hashValuesRun(v2.values, gvIn.order2)]
    /\ UNCHANGED <<records, releases, mirror, queued, faults, pc, rname,
                   obj, rstale, loc, result, log, hpc, hmsg, hstale, hres,
                   settled, unCalls, unFails, gvIn, pulls, sync, hc, mq, ctl, lk>>

NextHash == HashValues

SpecHash == InitHash /\ [][NextHash]_vars

\* The Syncer with its readers.
SpecMirror == Init /\ [][NextMirror]_vars

\* The helm Client with its callers.
SpecClient == Init /\ [][NextClient]_vars

\* The consumer with the deployment handler.
SpecConsumer == Init /\ [][NextConsumer]_vars

\* ------------------------------------------------------------------------
\* The consumer on deployment requests with request ids of any length, with
\* and without a release name.
\* ------------------------------------------------------------------------
ReqIdShort == <<"a", "b", "c">>

ShortIdRequests ==
    { [RequestID |-> ReqIdShort, TeamID |-> "t1", UserID |-> "u1",
       AppName |-> "postgresql", Namespace |-> "ns1", ReleaseName |-> rel,
       Version |-> "", Values |-> NilValues] : rel \in Names \cup {<<>>} }

AnyRequests == DeploymentRequests \cup ShortIdRequests

RequestMessages ==
    {[type |-> "deployment.request", payload |-> p] : p \in AnyRequests}
    \cup {[type |-> "malformed", payload |-> NoPayload]}

NextRequests ==
    \/ \E m \in RequestMessages : Publish(m)
    \/ \E m \in RequestMessages : Deliver(m)
    \/ \E p \in AnyRequests : DispatchRequest(p)
    \/ HandleMessageReject
    \/ Answer
    \/ Answered
    \/ NextDelivery

SpecRequests == Init /\ [][NextRequests]_vars

\* ------------------------------------------------------------------------
\* The controller on a record with spec.valuesFrom, written by a user, while
\* the ConfigMap it refers to is edited.  The controller watches
\* AppDeployments only.
\* ------------------------------------------------------------------------
ClusterWith(tree) ==
    [ConfigMap |-> ("base" :> (ValuesKeyDefault :> Doc(tree))),
     Secret |-> <<>>]

\* The contents the ConfigMap goes through.
DriftClusters == {ClusterWith(TreeBase), ClusterWith(TreeFlat)}

\* The record the user has created.
DriftRecord(name) ==
    LET p == CHOOSE q \in DeploymentRequests : q.TeamID = "t1"
        r == NewAppDeployment(p, name)
    IN [r EXCEPT !.Spec.ValuesFrom = <<Ref("ConfigMap", "base", "", FALSE)>>]

InitDrift ==
    /\ records = [n \in Names |-> DriftRecord(n)]
    /\ releases = [n \in Names |-> NoRelease]
    /\ mirror = Charts
    /\ queued = Names
    /\ faults = [n \in Names |-> 0]
    /\ pc = "idle"
    /\ rname = CHOOSE n \in Names : TRUE
    /\ obj = NoRec
    /\ rstale = FALSE
    /\ loc = EmptyLoc
    /\ result = ResNone
    /\ log = EmptyLog
    /\ hpc = "idle"
    /\ hmsg = NoPayload
    /\ hstale = FALSE
    /\ hres = NoResult
    /\ settled = [n \in Names |-> FALSE]
    /\ unCalls = [n \in Names |-> 0]
    /\ unFails = [n \in Names |-> 0]
    /\ pulls = 0
    /\ sync = SyncIdle
    /\ hc = HcIdle
    /\ mq = MqIdle
    /\ ctl = CtlIdle
    /\ lk = LkIdle
    /\ gvIn = [GvIdle EXCEPT !.cluster = ClusterWith(TreeBase)]
    /\ gvOut = GvNone

\* The ConfigMap is edited: no AppDeployment changes, no request is queued.
ConfigMapUpdate ==
    /\ \E c \in DriftClusters : c # gvIn.cluster /\ gvIn' = [gvIn EXCEPT !.cluster = c]
    /\ settled' = [n \in Names |-> FALSE]
    /\ UNCHANGED <<records, releases, mirror, queued, faults, pc, rname, obj,
                   rstale, loc, result, log, hpc, hmsg, hstale, hres,
                   unCalls, unFails, gvOut, pulls, sync, hc, mq, ctl, lk>>

NextDrift ==
    \/ NextCleanup
    \/ ConfigMapUpdate

SpecDrift == InitDrift /\ [][NextDrift]_vars

\* ------------------------------------------------------------------------
\* Consumer.Start on its own, and next to the periodic sync of the Syncer
\* under one shutdown context.  A step that returns from a call (connect,
\* the retry timer, handleMessage, the writes of a pull) is taken when it
\* stays possible; a select takes each of its ready cases again and again.
\* ------------------------------------------------------------------------
NextStart ==
    \/ ConsumerStart
    \/ Cancel
    \/ Stop
    \/ StartSelect
    \/ Connect
    \/ WaitElapsed
    \/ WaitCancelled
    \/ ConsumeCancelled
    \/ ConsumeStopped
    \/ ConsumeClosed
    \/ TakeDelivery
    \/ DeliveryDone
    \/ ConnectionLost

StartFairness ==
    /\ WF_vars(StartSelect)
    /\ WF_vars(Connect)
    /\ WF_vars(WaitElapsed)
    /\ WF_vars(DeliveryDone)
    /\ WF_vars(ConsumeClosed)
    /\ SF_vars(ConsumeCancelled)
    /\ SF_vars(ConsumeStopped)

\* Consumer.Start with no assumption on scheduling.
SpecStart == Init /\ [][NextStart]_vars

FairStart == Init /\ [][NextStart]_vars /\ StartFairness

\* What the remote holds in this run: the chart of the application, and
\* nothing new after the initial sync.
RemoteTree == [EmptyTree EXCEPT ![PostgresqlEntry] = "chart"]
FetchesRemoteTree == sync'.todo \in {<<>>, <<RemoteTree>>}

SyncerStart == Start /\ FetchesRemoteTree
PeriodicPull == PullLock("periodicSync") /\ FetchesRemoteTree

NextShutdown ==
    \/ NextStart
    \/ SyncerStart
    \/ PeriodicPull
    \/ WriteEntry
    \/ WriteDone
    \/ PullUnlock
    \/ StartUnlock
    \/ StopLoop

FairShutdown ==
    /\ Init
    /\ [][NextShutdown]_vars
    /\ StartFairness
    /\ WF_vars(WriteEntry)
    /\ WF_vars(WriteDone)
    /\ WF_vars(PullUnlock)
    /\ SF_vars(StopLoop)

\* ------------------------------------------------------------------------
\* The locks under fair scheduling: the operation of a holder ends (the
\* calls return), a reader that may enter does, and sync.Mutex and the
\* writer side of sync.RWMutex hand the lock to a goroutine that waits
\* (starvation mode), so a Lock that can return again and again does.
\* ------------------------------------------------------------------------
InitLocks ==
    /\ InitController
    /\ mirror = Charts
    /\ gvIn = GvIdle
    /\ gvOut = GvNone

SpecLocks == InitLocks /\ [][NextLocks]_vars

LockFairness ==
    /\ \A g \in Goroutines :
          /\ WF_vars(MirrorRLock(g))
          /\ WF_vars(\E found \in BOOLEAN, next \in {"Install", "Upgrade", "none"} :
                        MirrorRUnlock(g, found, next))
          /\ SF_vars(HelmLock(g))
          /\ WF_vars(\E err \in BOOLEAN : HelmUnlock(g, err))
    /\ \A w \in MirrorWriters :
          /\ SF_vars(MirrorLock(w))
          /\ WF_vars(\E err \in BOOLEAN : MirrorUnlock(w, err))

FairLocks == SpecLocks /\ LockFairness

\* ------------------------------------------------------------------------
\* Properties of the reconcile pass
\* ------------------------------------------------------------------------
StatusOf(n) == IF records[n].exists THEN records[n].Status ELSE EmptyStatus

\* The status of record n after the step.
StatusNext(n) == IF records'[n].exists THEN records'[n].Status ELSE EmptyStatus

\* A step of a reconcile pass, the first one (Reconcile) included; the work
\* queue's Requeue is not one.
PassStep == pc' # pc /\ pc # "return"

\* The conditions of a status that have the given type.
CondOf(status, type) ==
    {status.Conditions[i] : i \in {j \in 1..Len(status.Conditions) :
                                       status.Conditions[j].Type = type}}

\* C1 as claimed: a pass that read suspend = true never changes the status
\* of the record, whatever the finalizer and the deletion marker are.
C1_AsClaimed ==
    [][(PassStep /\ log'.sawSuspend)
          => StatusNext(rname') = StatusOf(rname')]_vars

\* C1: a pass that read suspend = true on a record that does not carry both
\* the deletion marker and the finalizer leaves the status of the record
\* exactly as it was, at every step of the pass.
C1_SuspendKeepsStatus ==
    [][(PassStep /\ log'.sawSuspend /\ ~(log'.sawDeletion /\ log'.sawFinalizer))
          => StatusNext(rname') = StatusOf(rname')]_vars

\* A pass over a suspended record with the finalizer has returned and the
\* Deployed status it found is still there.
C1_Witness ==
    /\ pc = "return"
    /\ log.sawSuspend /\ log.sawFinalizer /\ ~log.sawDeletion
    /\ records[rname].exists
    /\ records[rname].Status.Phase = "Deployed"
    /\ records[rname].Status = log.startStatus
    /\ result = ResNone

\* The pass that has just returned read a record that was not suspended, not
\* deleted, carried the finalizer, and whose release did not exist.
FirstInstallPass ==
    /\ pc = "return"
    /\ ~log.sawSuspend /\ ~log.sawDeletion /\ log.sawFinalizer
    /\ log.absentAtStart

\* C2 as claimed: such a pass issues exactly one Install and no Upgrade, ends
\* with the persisted phase Deployed or Failed and never sets Upgrading.
C2_AsClaimed ==
    FirstInstallPass =>
        /\ log.installs = 1
        /\ log.upgrades = 0
        /\ StatusOf(rname).Phase \in {"Deployed", "Failed"}
        /\ "Upgrading" \notin log.phases

\* C2: such a pass issues at most one Install, exactly one when it persisted
\* phase Installing, no Upgrade, never sets Upgrading, and when it returns
\* without an error the persisted phase is Deployed or Failed.
C2_FirstInstall ==
    FirstInstallPass =>
        /\ log.installs <= 1
        /\ (log.installs = 1 <=> "Installing" \in log.phases)
        /\ log.upgrades = 0
        /\ "Upgrading" \notin log.phases
        /\ (~result.err => StatusOf(rname).Phase \in {"Deployed", "Failed"})
        /\ (result.err => log.phases \subseteq {"Installing"})

\* A first install has gone through: one Install, phase Deployed.
C2_Witness ==
    /\ FirstInstallPass
    /\ log.installs = 1
    /\ log.phases = {"Installing", "Deployed"}
    /\ StatusOf(rname).Phase = "Deployed"
    /\ releases[rname].exists

\* C3: in a pass that starts after a pass that ended Deployed, with nothing
\* changed since, no step is an Install or an Upgrade call.
C3_NoRepeatCalls ==
    [][(PassStep /\ log.settled /\ settled[rname])
          => (log'.installs = 0 /\ log'.upgrades = 0)]_vars

\* The pass that has just returned started after a pass that ended Deployed
\* and itself ended Deployed, with nothing changed in between.
SettledPass ==
    /\ pc = "return"
    /\ log.settled
    /\ settled[rname]
    /\ "Deployed" \in log.phases

\* C4 as claimed: such a pass leaves the whole status as it found it.
C4_AsClaimed == SettledPass => StatusOf(rname) = log.startStatus

\* C4: such a pass leaves phase, release name, deployed version, values
\* hash, observed generation, failure counter, message and the Ready
\* condition as it found them and does not move the last-reconcile time
\* backwards; revision and conditions are as found when the pass issued no
\* Upgrade, and the revision is one more when it issued one.
C4_SettledStatus ==
    SettledPass =>
        LET s == StatusOf(rname)
            s0 == log.startStatus
        IN
        /\ s.Phase = "Deployed" /\ s0.Phase = "Deployed"
        /\ s.HelmReleaseName = s0.HelmReleaseName
        /\ s.DeployedChartVersion = s0.DeployedChartVersion
        /\ s.LastAppliedValuesHash = s0.LastAppliedValuesHash
        /\ s.ObservedGeneration = s0.ObservedGeneration
        /\ s.FailureCount = s0.FailureCount
        /\ s.Message = s0.Message
        /\ CondOf(s, "Ready") = CondOf(s0, "Ready")
        /\ s.LastReconcileTime >= s0.LastReconcileTime
        /\ log.installs = 0
        /\ (log.upgrades = 0 =>
              [s EXCEPT !.LastReconcileTime = 0] = [s0 EXCEPT !.LastReconcileTime = 0])
        /\ (log.upgrades # 0 =>
              s.HelmReleaseRevision = s0.HelmReleaseRevision + 1)

\* A settled pass without an Upgrade has moved the last-reconcile time and
\* nothing else.
C4_Witness ==
    /\ SettledPass
    /\ log.upgrades = 0
    /\ StatusOf(rname).LastReconcileTime > log.startStatus.LastReconcileTime
    /\ [StatusOf(rname) EXCEPT !.LastReconcileTime = 0]
         = [log.startStatus EXCEPT !.LastReconcileTime = 0]

\* C5: a release that exists belongs to a record that carries the finalizer,
\* and a pass that removed the finalizer observed the release absent or had
\* Uninstall return success, the release being absent at the removal.
C5_FinalizerGuardsRelease ==
    /\ \A n \in Names :
          releases[n].exists => (records[n].exists /\ records[n].Finalizer)
    /\ (pc = "removeFinalizer" \/ (pc = "return" /\ log.removedFinalizer))
          => /\ log.releaseAbsent \/ log.uninstallOk
             /\ ~releases[rname].exists

\* A pass has uninstalled the release and then removed the finalizer.
C5_Witness ==
    /\ pc = "return"
    /\ log.removedFinalizer
    /\ log.uninstallOk
    /\ log.uninstalls = 1
    /\ ~records[rname].exists
    /\ ~releases[rname].exists

\* C6 as claimed: between the deletion marker and the removal of the
\* finalizer at most one Uninstall call is issued.
C6_AsClaimed == \A n \in Names : unCalls[n] <= 1

\* C6: a pass issues at most one Uninstall call, only for a release that
\* exists, and between the deletion marker and the removal of the finalizer
\* the Uninstall calls are at most one more than those that failed.
C6_UninstallCalls ==
    /\ \A n \in Names : unCalls[n] <= unFails[n] + 1
    /\ log.uninstalls <= 1
    /\ pc = "uninstall" => (releases[rname].exists /\ log.uninstalls = 0)

\* Uninstall failed in one pass and succeeded in the next.
C6_Witness ==
    \E n \in Names :
        /\ unCalls[n] = 2
        /\ unFails[n] = 1
        /\ ~releases[n].exists
        /\ pc = "removeFinalizer"

\* C7: a pass that is about to call Install or Upgrade read the record with
\* the finalizer, which is persisted; the pass that adds the finalizer makes
\* no Helm call, writes no status, and returns an immediate requeue.
C7_FinalizerFirst ==
    /\ pc \in {"installing", "install", "upgrading", "upgrade"}
          => (log.sawFinalizer /\ records[rname].exists /\ records[rname].Finalizer)
    /\ (log.installs > 0 \/ log.upgrades > 0) => log.sawFinalizer
    /\ (pc = "addFinalizer" \/ (pc = "return" /\ log.addedFinalizer))
          => /\ log.installs = 0 /\ log.upgrades = 0 /\ log.uninstalls = 0
             /\ log.getReleases = 0
             /\ log.statusWrites = 0
             /\ ~log.sawFinalizer
    /\ (pc = "return" /\ log.addedFinalizer)
          => (result = ResRequeue /\ rname \in queued /\ records[rname].Finalizer)

\* The pass that added the finalizer has returned with a requeue.
C7_Witness ==
    /\ pc = "return"
    /\ log.addedFinalizer
    /\ result = ResRequeue
    /\ records[rname].exists /\ records[rname].Finalizer
    /\ ~releases[rname].exists

\* A cleanup pass has returned without removing the finalizer.
FailedCleanupPass ==
    /\ pc = "return"
    /\ log.sawDeletion /\ log.sawFinalizer
    /\ ~log.removedFinalizer

\* Record n carries the deletion marker and the finalizer.
CleanupPending(n) ==
    records[n].exists /\ records[n].Deleting /\ records[n].Finalizer

\* C8: a cleanup pass that fails keeps the finalizer and asks for a retry
\* (an error or a requeue), and under fair scheduling of the reconciler a
\* record with deletion marker and finalizer is eventually gone with its
\* release absent.
C8_CleanupRetried ==
    /\ [](FailedCleanupPass => (Requeues(result) /\ CleanupPending(rname)))
    /\ \A n \in Names :
          CleanupPending(n) ~> (~records[n].exists /\ ~releases[n].exists)

\* Uninstall has failed in a cleanup pass, which returned the failure
\* interval with an error; the release is still there.
C8_Witness ==
    /\ FailedCleanupPass
    /\ log.uninstalls = 1 /\ ~log.uninstallOk
    /\ result = ResAfterFailureErr
    /\ releases[rname].exists
    /\ CleanupPending(rname)

\* ------------------------------------------------------------------------
\* Properties of getValues
\* ------------------------------------------------------------------------
MaxOf(S) == CHOOSE x \in S : \A y \in S : y <= x

\* The elements of a set of indices in ascending order.
Ascending(S) ==
    [j \in 1..Cardinality(S) |->
        CHOOSE i \in S : Cardinality({x \in S : x <= i}) = j]

\* The trees getValues merges, in the order it merges them: the documents
\* of the references that could be read, then spec.values.
SourcesOf(in) ==
    LET read == [i \in 1..Len(in.refs) |->
                    getValuesFromReference(in.cluster, in.refs[i])]
        ok == Ascending({i \in 1..Len(in.refs) : ~read[i].err})
    IN [j \in 1..Len(ok) |-> read[ok[j]].values]
       \o (IF in.values.t = "doc" THEN <<in.values.m>> ELSE <<>>)

\* Deep merge of a sequence of trees, key by key: a key is present when a
\* source has it; the last source that has it decides; when that holds a
\* map, the maps of the sources since the last one that held no map there
\* are merged the same way.
RECURSIVE DeepMergeAll(_)
DeepMergeAll(srcs) ==
    [k \in UNION {DOMAIN srcs[i] : i \in 1..Len(srcs)} |->
        LET has == {i \in 1..Len(srcs) : k \in DOMAIN srcs[i]}
            last == MaxOf(has)
            flat == {i \in has : ~IsMap(srcs[i][k])}
            run == Ascending({i \in has : \A f \in flat : i > f})
        IN IF ~IsMap(srcs[last][k]) THEN srcs[last][k]
           ELSE Map(DeepMergeAll([j \in 1..Len(run) |-> srcs[run[j]][k].m]))]

\* The record of the spec's example: one ConfigMap {replicas:1, size:"1Gi"}
\* and spec.values {replicas:3}.
ExampleInput ==
    [cluster |-> ValuesCluster,
     refs |-> <<Ref("ConfigMap", "base", "", FALSE)>>,
     values |-> Doc(TreeReplicas)]

\* C9: when getValues returns values, they are the deep merge of the
\* documents of valuesFrom in declared order followed by spec.values: keys of
\* one source only are kept, every scalar of spec.values is in the result,
\* and the spec's example gives {replicas:3, size:"1Gi"}.
C9_GetValuesIsDeepMergeFold ==
    (gvOut.done /\ ~gvOut.err) =>
        /\ gvOut.values = DeepMergeAll(SourcesOf(gvIn))
        /\ gvIn.values.t = "doc" =>
              \A k \in DOMAIN gvIn.values.m :
                  /\ k \in DOMAIN gvOut.values
                  /\ ~IsMap(gvIn.values.m[k]) => gvOut.values[k] = gvIn.values.m[k]
        /\ gvIn = ExampleInput =>
              gvOut.values = [replicas |-> Scalar("3"), size |-> Scalar("1Gi")]

\* getValues has merged a map of spec.values into a map of a reference,
\* a key of the reference surviving next to a key spec.values overrides.
C9_Witness ==
    /\ gvOut.done /\ ~gvOut.err
    /\ gvIn.refs = <<Ref("ConfigMap", "nested", "", FALSE)>>
    /\ gvIn.values = Doc(TreeNestedSize)
    /\ gvOut.values =
          [persistence |-> Map([size |-> Scalar("2Gi"), replicas |-> Scalar("1")])]

\* ------------------------------------------------------------------------
\* Properties of the deployment handler
\* ------------------------------------------------------------------------
\* C10: HandleDeploymentRequest for a payload whose resolved name has a
\* record returns success and leaves every record as it is; after any
\* HandleDeploymentRequest the resolved name has a record.
C10_RedeliveryIdempotent ==
    [][(hres.kind = "none" /\ hres'.kind = "request")
          => /\ records'[hres'.name].exists
             /\ records[hres'.name].exists
                   => (~hres'.err /\ records' = records)]_vars

\* The same payload has been handled a second time: its record is there,
\* created from the same request id, and the handler returned success.
C10_Witness ==
    /\ hpc = "return"
    /\ hres.kind = "request"
    /\ hres.existed
    /\ ~hres.err
    /\ records[hres.name].exists
    /\ records[hres.name].Labels.requestId = hres.id

\* ------------------------------------------------------------------------
\* Properties of the chart Syncer
\* ------------------------------------------------------------------------
\* C11 as claimed: whenever no pull is in progress, ChartExists(x) is true
\* exactly for the names x that ListCharts returns, for every name x: the
\* hidden ones, the empty one and the names of entries that are no
\* directories included.
C11_ExistsIffListed ==
    sync.writer = "none" =>
        \A x \in QueryNames :
            ChartExistsIn(sync.tree, x) <=> x \in ListChartsIn(sync.tree)

\* C17 as claimed: no reader of the local copy (ChartExists, ListCharts, the
\* chart lookup and the chart load of Install and Upgrade) runs while a
\* writer (initial sync, periodic pull, ForceSync) holds the tree.
C17_NoReaderDuringPull ==
    (sync.validator # "idle" \/ sync.helm # "idle") => sync.writer = "none"

\* C20 as claimed: a pull of the periodic loop or of ForceSync that fails
\* leaves the local copy as it was, reports no failure to its caller and
\* leaves the periodic loop running.
C20_FailedPullIsSilent ==
    [][(sync.writer \in {"periodicSync", "ForceSync"}
          /\ sync'.writer = "none" /\ sync.err)
       => /\ sync'.tree = sync.before
          /\ ~sync'.out.reported
          /\ sync'.loop = sync.loop]_vars

\* ------------------------------------------------------------------------
\* Properties of the helm Client
\* ------------------------------------------------------------------------
InBody == {g \in Goroutines : hc.call[g].at \in {"body", "return"}}

\* C15: over all goroutines and all releases and namespaces, at most one of
\* Install, Upgrade and Uninstall is inside its body (between c.mu.Lock
\* and the deferred c.mu.Unlock) at any time.
C15_MutualExclusion ==
    /\ Cardinality(InBody) <= 1
    /\ \A g \in InBody : hc.mu = g

\* C15's case: one goroutine is inside the body of a call while another has
\* called a different operation for a different release and waits.
C15_Witness ==
    \E g \in Goroutines, h \in Goroutines :
        /\ hc.call[g].at = "body"
        /\ hc.call[h].at = "Lock"
        /\ hc.call[g].op # hc.call[h].op
        /\ hc.call[g].target # hc.call[h].target

\* C16 as claimed: Uninstall for a release that does not exist returns no
\* error (the cluster answering without a fault).
C16_UninstallAbsentSucceeds ==
    \A g \in Goroutines :
        (/\ hc.call[g].at = "return"
         /\ hc.call[g].op = "Uninstall"
         /\ ~hc.call[g].found
         /\ ~hc.call[g].fault) => ~hc.call[g].err

\* ------------------------------------------------------------------------
\* Properties of the consumer
\* ------------------------------------------------------------------------
\* C13: for every delivery the consumer sends exactly one acknowledgement,
\* Ack iff handleMessage returned no error and Nack with requeue iff it
\* returned one; a message is removed from the queue only on the Ack that
\* follows a handler run without error, and a message whose handler failed
\* is back in the queue; no published message is lost.
C13_OneAcknowledgement ==
    /\ [](/\ Len(mq.answers) <= 1
          /\ mq.ran =>
                /\ Len(mq.answers) = 1
                /\ mq.answers[1] = "Ack" <=> ~mq.failed
                /\ mq.answers[1] = "Nack" <=> mq.failed
                /\ mq.failed => mq.inflight \in mq.ready
          /\ mq.published =
                mq.ready \cup mq.removed \cup ({mq.inflight} \ {NoMessage}))
    /\ [][/\ mq'.removed # mq.removed =>
                /\ hpc = "return" /\ ~hres.err
                /\ mq'.removed = mq.removed \cup {mq.inflight}
          /\ (hpc = "return" /\ hpc' = "idle") => mq.ran]_vars

\* C13's case: the handler of a deployment-update returned an error and the
\* delivery was nacked and requeued.
C13_Witness ==
    /\ mq.inflight.type = "deployment.update"
    /\ mq.ran
    /\ mq.failed
    /\ mq.answers = <<"Nack">>
    /\ mq.inflight \in mq.ready
    /\ mq.removed # {}

\* ------------------------------------------------------------------------
\* Properties of team ownership
\* ------------------------------------------------------------------------
\* The payload comes from another team than the one that owns its target.
Foreign(payload) ==
    /\ records[payload.Name].exists
    /\ records[payload.Name].Spec.TeamID # payload.TeamID

\* The step ends the handler call with an error and changes no record.
Refused(payload) ==
    /\ hpc' = "return"
    /\ hres'.err
    /\ hres'.name = payload.Name
    /\ records' = records

\* C14: a deployment-update or deployment-delete whose teamId differs from
\* the spec.teamId of its target returns an error and leaves every record
\* as it was, at every delivery; a step of the handler changes or deletes
\* an existing record only for a payload of the team that owns it.
C14_OwnershipEnforced ==
    [][/\ \A p \in DeploymentUpdates :
            (HandleDeploymentUpdateGet(p) /\ Foreign(p)) => Refused(p)
       /\ \A p \in DeploymentDeletes :
            (HandleDeploymentDeleteGet(p) /\ Foreign(p)) => Refused(p)
       /\ (hpc \in {"update", "delete"} /\ hpc' = "return" /\ records' # records)
            => /\ records[hmsg.Name].exists
               /\ records[hmsg.Name].Spec.TeamID = hmsg.TeamID]_vars

\* C14's case: a deployment-delete of another team was refused for a
\* deployed record that carries the finalizer; the record is not marked.
C14_Witness ==
    /\ hpc = "return"
    /\ hres.kind = "delete"
    /\ hres.err
    /\ records[hres.name].exists
    /\ records[hres.name].Finalizer
    /\ ~records[hres.name].Deleting
    /\ records[hres.name].Status.Phase = "Deployed"

\* ------------------------------------------------------------------------
\* Properties of the observed generation
\* ------------------------------------------------------------------------
\* The status of r is Deployed and was written for the generation r has.
DeployedForGeneration(r) ==
    /\ r.exists
    /\ r.Status.Phase = "Deployed"
    /\ r.Status.ObservedGeneration = r.Generation

\* C18: observedGeneration <= generation, and when they are equal and the
\* phase is Deployed, lastAppliedValuesHash is the hash of the values the
\* release was last installed or upgraded with, and these are the merged
\* values of the current spec (over the valuesFrom objects as a pass has
\* read them) -- also when a deployment-update is applied in the middle of
\* a pass.
C18_ObservedGeneration ==
    \A n \in Names :
        LET r == records[n]
            rel == releases[ReleaseNameOf(r)]
        IN
        /\ r.exists => r.Status.ObservedGeneration <= r.Generation
        /\ DeployedForGeneration(r) =>
              /\ rel.exists
              /\ r.Status.LastAppliedValuesHash = hashValues(rel.values)
              /\ \E c \in DriftClusters :
                    /\ ~getValues(c, r.Spec).err
                    /\ rel.values = getValues(c, r.Spec).values

\* ------------------------------------------------------------------------
\* Properties of the failure exits of a pass
\* ------------------------------------------------------------------------
\* The step ends a pass in which a call has failed: the status write that
\* follows a failure of reconcileHelm, or a failed ReleaseExists or
\* Uninstall of reconcileDelete.  The record has not changed under the
\* pass, so a status write of the pass is accepted.
PassEndsAfterFailure ==
    /\ pc' = "return"
    /\ ~rstale
    /\ \/ pc = "failed"
       \/ pc \in {"delPhase", "uninstall"} /\ faults'[rname] = faults[rname] + 1

\* C19: every failure inside a pass (package missing, values error, release
\* query error, install or upgrade error, release-existence check error
\* during deletion, uninstall error) is recorded in the record's status as
\* phase Failed with a message and an incremented failure counter, and
\* Reconcile returns no error.
C19_FailuresGoToStatus ==
    [][PassEndsAfterFailure =>
          /\ records'[rname].exists
          /\ records'[rname].Status.Phase = "Failed"
          /\ records'[rname].Status.Message # <<>>
          /\ records'[rname].Status.FailureCount = obj.Status.FailureCount + 1
          /\ ~result'.err]_vars

\* ------------------------------------------------------------------------
\* Properties of the end-to-end scenario
\* ------------------------------------------------------------------------
\* The deployment-request of the scenario: postgresql, team t1, namespace
\* ns1, no release name, request id ReqIdA.
ScenarioRequest ==
    CHOOSE p \in DeploymentRequests :
        /\ p.AppName = "postgresql" /\ p.TeamID = "t1" /\ p.Namespace = "ns1"
        /\ p.ReleaseName = <<>> /\ p.RequestID = ReqIdA

\* postgresql-<first 8 characters of the request id>
ScenarioName == <<"postgresql", "-">> \o SubSeq(ReqIdA, 1, 8)

\* The record the scenario's request has created.
ScenarioRecord(r) ==
    /\ r.exists
    /\ r.Name = ScenarioName
    /\ r.Namespace = "ns1"
    /\ r.Labels.team = "t1"
    /\ r.Labels.requestId = ReqIdA
    /\ r.Spec.ReleaseName = r.Name

\* The record has just been created by the scenario's request, the package
\* is in the mirror and there is no release.
ScenarioStarted ==
    /\ ScenarioRecord(records[ScenarioName])
    /\ records[ScenarioName].Status = EmptyStatus
    /\ records[ScenarioName].Generation = 1
    /\ ~records[ScenarioName].Finalizer
    /\ ~records[ScenarioName].Deleting
    /\ "postgresql" \in mirror
    /\ ~releases[ScenarioName].exists
    /\ faults[ScenarioName] = 0

\* The scenario's outcome: installed once under the record's name, status
\* Deployed with revision 1 and a deployed chart version.
ScenarioDeployed ==
    LET r == records[ScenarioName]
        rel == releases[ScenarioName]
    IN
    /\ ScenarioRecord(r)
    /\ r.Status.Phase = "Deployed"
    /\ r.Status.HelmReleaseRevision = 1
    /\ r.Status.DeployedChartVersion # ""
    /\ r.Status.HelmReleaseName = ScenarioName
    /\ rel.exists
    /\ rel.ChartName = "postgresql"
    /\ rel.Namespace = "ns1"
    /\ rel.Revision = 1

\* Something outside the scenario has happened: a lifecycle call has
\* failed, or another message has changed or deleted the record.
ScenarioLeft ==
    \/ faults[ScenarioName] > 0
    \/ ~records[ScenarioName].exists
    \/ records[ScenarioName].Deleting
    \/ records[ScenarioName].Generation # 1

\* C12: the deployment-request {postgresql, t1, ns1, no release name, id R},
\* arriving with the package in the mirror and no record or release, creates
\* the record postgresql-<first 8 characters of R> in ns1 with team label t1
\* and spec.releaseName equal to the record name; under fair scheduling of
\* the engine and with lifecycle calls succeeding the engine calls Install
\* once under that name (and Install is called for an absent release only)
\* and the status eventually is Deployed with revision 1 and a non-empty
\* deployed chart version.
C12_RequestLeadsToDeployed ==
    /\ [][/\ (HandleDeploymentRequest(ScenarioRequest) /\ ~records[ScenarioName].exists)
             => ScenarioRecord(records'[ScenarioName])
          /\ (pc = "install" /\ releases' # releases)
             => /\ ~releases[ReleaseNameOf(obj)].exists
                /\ releases'[ReleaseNameOf(obj)].Revision = 1
                /\ releases'[ReleaseNameOf(obj)].ChartName = obj.Spec.AppName]_vars
    /\ ScenarioStarted ~> (ScenarioDeployed \/ ScenarioLeft)

\* C12's case: the scenario has run to its end with no failed call and no
\* other message: the first pass after the finalizer has installed the
\* release and written Deployed.
C12_Witness ==
    /\ ScenarioDeployed
    /\ ~ScenarioLeft
    /\ records[ScenarioName].Finalizer
    /\ records[ScenarioName].Status.ObservedGeneration = 1
    /\ records[ScenarioName].Status.FailureCount = 0

\* ------------------------------------------------------------------------
\* Properties of the messages that cannot be dispatched
\* ------------------------------------------------------------------------
\* C29: a delivery whose body is no parseable envelope, whose payload does
\* not parse or whose type is unknown changes no record and is negatively
\* acknowledged with requeue on every delivery; it is never acked and never
\* dropped (it is in the queue or being handled from its publication on).
C29_RejectedIsRequeued ==
    /\ [](\A m \in RejectedMessages :
            /\ m \notin mq.removed
            /\ m \in mq.published => (m \in mq.ready \/ mq.inflight = m)
            /\ (mq.inflight = m /\ mq.ran) => mq.answers = <<"Nack">>)
    /\ [][mq.inflight \in RejectedMessages => records' = records]_vars

\* C29's case: an envelope of a known type whose payload does not parse has
\* been handled and answered, next to a record that exists.
C29_Witness ==
    /\ mq.inflight = [type |-> "deployment.update", payload |-> NoPayload]
    /\ mq.ran
    /\ mq.answers = <<"Nack">>
    /\ \E n \in Names : records[n].exists

\* ------------------------------------------------------------------------
\* Properties of Syncer.Start
\* ------------------------------------------------------------------------
\* The step is the return of Start.
StartReturns == sync.writer = "initialSync" /\ sync'.writer = "none"

\* C30: Start returns success only when a usable local repository exists
\* afterwards; the periodic loop is started iff the initial sync succeeded;
\* when the fresh clone fails Start returns an error and no loop runs.  The
\* loop never runs without a repository.
C30_StartNeedsRepository ==
    /\ [][StartReturns =>
             /\ ~sync'.out.err => (sync'.git /\ sync'.repo)
             /\ (sync'.loop = "on") <=> ~sync'.out.err
             /\ sync.err => (sync'.out.err /\ sync'.out.reported)]_vars
    /\ [](sync.loop = "on" => sync.repo)

\* C30's case: the old copy was discarded, the fresh clone has failed, Start
\* has returned the error and no loop runs.
C30_Witness ==
    /\ sync.out.who = "initialSync"
    /\ sync.out.err
    /\ sync.out.changed
    /\ sync.tree = EmptyTree
    /\ sync.loop = "off"
    /\ sync.writer = "none"

\* ------------------------------------------------------------------------
\* Properties of Consumer.Start and of the shutdown
\* ------------------------------------------------------------------------
\* C21: while the context is not cancelled Start does not return on a
\* failure (it returns only when cancelled or stopped); a failed connect is
\* followed by the wait and then by another attempt, never by an attempt
\* without the wait; an unexpected close during consumption ends the
\* consume loop and is followed by a new connect, and the consume loop is
\* only entered from a connect that has succeeded.
C21_StartKeepsConnecting ==
    /\ [][/\ (ctl'.at = "returned" /\ ctl.at # "returned")
                => (ctl.ctx = "done" \/ ctl.stop)
          /\ (ctl'.at = "connect" /\ ctl.at # "connect")
                => ctl.cycle \in {"none", "waited"}
          /\ (ctl'.at = "consume" /\ ctl.at \notin {"consume", "handle"})
                => (ctl.at = "connect" /\ ctl'.conn = "open")
          /\ (ctl.at = "consume" /\ ctl.conn = "closed" /\ ctl' # ctl
              /\ ctl'.ctx = ctl.ctx /\ ctl'.stop = ctl.stop)
                => ctl'.at \in {"top", "returned"}]_vars
    /\ (ctl.at = "wait") ~> (ctl.at = "connect" \/ ctl.ctx = "done")
    /\ (ctl.conn = "closed" /\ ctl.at \in {"consume", "handle"})
          ~> (ctl.at = "connect" \/ ctl.ctx = "done" \/ ctl.stop)

\* C21's case: a connect has failed, a connection was closed while
\* consuming, and Start, never cancelled or stopped, consumes again on a
\* new connection.
C21_Witness ==
    /\ ctl.ctx = "live"
    /\ ~ctl.stop
    /\ ctl.fails > 0
    /\ ctl.closes > 0
    /\ ctl.at = "consume"
    /\ ctl.conn = "open"

\* C22: after the context is cancelled Start eventually returns, from the
\* wait as from the consume loop, and the periodic sync loop eventually
\* exits; once a loop has taken its ctx.Done() case Start makes no further
\* connect attempt and takes no further delivery, and periodicSync starts
\* no further pull.
C22_ShutdownStopsLoops ==
    /\ [][/\ ctl.seen => ~(ctl'.at \in {"connect", "handle"} /\ ctl'.at # ctl.at)
          /\ ~(sync'.loop = "stopped" /\ sync'.writer = "periodicSync"
               /\ sync.writer # "periodicSync")]_vars
    /\ (ctl.ctx = "done" /\ ctl.at # "off") ~> (ctl.at = "returned")
    /\ (ctl.ctx = "done" /\ sync.loop = "on") ~> (sync.loop = "stopped")

\* C22's case: the context was cancelled while Start was consuming and
\* after the periodic loop had pulled; Start has returned the context's
\* error and the loop has exited.
C22_Witness ==
    /\ ctl.ctx = "done"
    /\ ctl.at = "returned"
    /\ ctl.ret = "ctxErr"
    /\ ctl.cycle = "none"
    /\ ctl.conn = "none"
    /\ ctl.seen
    /\ sync.loop = "stopped"
    /\ sync.out.who = "periodicSync"

\* ------------------------------------------------------------------------
\* Properties of the upgrade decision
\* ------------------------------------------------------------------------
\* The step is the first one of a pass and ends with GetRelease having
\* returned a release: the pass is at its upgrade decision.
ReleaseFoundStep == pc = "idle" /\ pc' \in {"upgrading", "deployed"}

\* The decision the step has taken is the one of the rule: upgrade iff the
\* stored hash differs from the hash of the merged values, or
\* spec.chartVersion is non-empty and differs from the release's version.
DecisionByRule ==
    LET r == obj'
        rel == releases[ReleaseNameOf(r)]
        h == hashValues(getValues(gvIn.cluster, r.Spec).values)
    IN
    /\ rel.exists
    /\ loc'.valuesHash = h
    /\ (pc' = "upgrading") <=>
          \/ r.Status.LastAppliedValuesHash # h
          \/ (r.Spec.ChartVersion # "" /\ r.Spec.ChartVersion # rel.ChartVersion)

\* C23 as claimed: when the release exists, Upgrade is issued iff the rule
\* asks for it: the decision follows the rule and a pass that has decided
\* to upgrade issues the call.
C23_AsClaimed ==
    [][/\ ReleaseFoundStep => DecisionByRule
       /\ (pc = "upgrading" /\ pc' # pc) => pc' = "upgrade"
       /\ log'.upgrades > log.upgrades => (pc = "upgrade" /\ log.upgrades = 0)]_vars

\* C23: when the release exists, the pass decides to upgrade iff the rule
\* asks for it (with an empty spec.chartVersion and equal hashes it does
\* not, whatever version is deployed); Upgrade is issued once, and only
\* after that decision, iff the status write of phase Upgrading that
\* precedes the call was accepted: a write that is refused ends the pass
\* with an error and without the call.
C23_UpgradeDecision ==
    [][/\ ReleaseFoundStep => DecisionByRule
       /\ (pc = "upgrading" /\ pc' # pc) =>
             /\ (pc' = "upgrade") <=> ~rstale
             /\ rstale => (pc' = "return" /\ result'.err /\ log'.upgrades = 0)
       /\ log'.upgrades > log.upgrades =>
             (pc = "upgrade" /\ log.upgrades = 0 /\ "Upgrading" \in log.phases)]_vars

\* C23's case: the hashes are equal and Upgrade is about to be called
\* because spec.chartVersion is set and is not the release's version.
C23_Witness ==
    /\ pc = "upgrade"
    /\ obj.Spec.ChartVersion # ""
    /\ releases[ReleaseNameOf(obj)].exists
    /\ obj.Spec.ChartVersion # releases[ReleaseNameOf(obj)].ChartVersion
    /\ log.startStatus.LastAppliedValuesHash = loc.valuesHash

\* ------------------------------------------------------------------------
\* Properties of the pass on a chart that is not in the charts directory
\* ------------------------------------------------------------------------
\* The step is the first one of a pass that has reached reconcileHelm.
ReconcileHelmStep ==
    pc = "idle" /\ pc' \in {"failed", "installing", "upgrading", "deployed"}

\* The message of a missing chart: the name asked for and the charts the
\* directory holds.
MissingChartMessage(app) ==
    <<"Chart not found in catalog", app>>
        \o (IF "postgresql" \in mirror THEN <<"postgresql">> ELSE <<>>)
        \o (IF "redis" \in mirror THEN <<"redis">> ELSE <<>>)

\* The pass holds the failure of a missing chart and is about to write it.
ChartMissingPending ==
    pc = "failed" /\ obj.Spec.AppName \notin mirror
        /\ loc.msg = MissingChartMessage(obj.Spec.AppName)

\* The validation: a pass on a chart that is not in the directory goes to
\* its failure exit with the message, and has made no Helm call.
ChartValidationFirst ==
    (ReconcileHelmStep /\ obj'.Spec.AppName \notin mirror) =>
        /\ pc' = "failed"
        /\ loc'.msg = MissingChartMessage(obj'.Spec.AppName)
        /\ log'.getReleases = 0 /\ log'.installs = 0 /\ log'.upgrades = 0

\* The pass ends with the failure written: phase Failed with the message,
\* the counter one higher, a requeue after the failure interval without an
\* error, and no Helm call.
ChartMissingWritten ==
    /\ pc' = "return"
    /\ StatusNext(rname).Phase = "Failed"
    /\ StatusNext(rname).Message = MissingChartMessage(obj.Spec.AppName)
    /\ StatusNext(rname).FailureCount = log.startStatus.FailureCount + 1
    /\ result' = ResAfterFailure
    /\ ~result'.err
    /\ log'.getReleases = 0 /\ log'.installs = 0 /\ log'.upgrades = 0
    /\ UNCHANGED releases

\* C24 as claimed: a pass on a record whose appName is not a chart of the
\* directory sets phase Failed with the message that lists the charts,
\* adds one to the failure counter, returns a requeue after the failure
\* interval without an error, and calls neither GetRelease nor Install nor
\* Upgrade.
C24_AsClaimed ==
    [][/\ ChartValidationFirst
       /\ (ChartMissingPending /\ pc' # pc) => ChartMissingWritten]_vars

\* C24: the same, when the status write of the failure is accepted; when
\* the record has changed since the pass read it the write is refused, the
\* status stays as it was, and the pass returns the error with no requeue
\* interval; no Helm call is made in either case.
C24_ChartNotInMirror ==
    [][/\ ChartValidationFirst
       /\ (ChartMissingPending /\ pc' # pc /\ ~rstale) => ChartMissingWritten
       /\ (ChartMissingPending /\ pc' # pc /\ rstale) =>
             /\ pc' = "return"
             /\ result' = ResErr
             /\ UNCHANGED <<records, releases>>
             /\ log'.getReleases = 0 /\ log'.installs = 0 /\ log'.upgrades = 0]_vars

\* C24's case: a pass on a chart that is not in the directory has ended
\* with the failure written.
C24_Witness ==
    /\ pc = "return"
    /\ records[rname].exists
    /\ records[rname].Spec.AppName \notin mirror
    /\ mirror # {}
    /\ StatusOf(rname).Phase = "Failed"
    /\ StatusOf(rname).Message = MissingChartMessage(records[rname].Spec.AppName)
    /\ StatusOf(rname).FailureCount = 1
    /\ result = ResAfterFailure
    /\ log.getReleases = 0

\* ------------------------------------------------------------------------
\* Properties of the status a pass ends with
\* ------------------------------------------------------------------------
\* The step ends a pass with a status write that leaves the given phase.
PassEndsWith(phase) ==
    /\ PassStep
    /\ pc' = "return"
    /\ log'.statusWrites > log.statusWrites
    /\ StatusNext(rname).Phase = phase

\* The status holds a Ready condition with the given value.
ReadyIs(status, b) ==
    /\ CondOf(status, "Ready") # {}
    /\ \A c \in CondOf(status, "Ready") : c.Status = b

\* C25: a pass that ends with phase Deployed leaves failureCount 0, Ready
\* true, the name, revision and chart version of the release as the Helm
\* client holds it, and the hash of the values the pass has merged; a pass
\* that ends with phase Failed leaves the failure counter one above its
\* value at the start of the pass and Ready false, and returns a requeue
\* after the failure interval.
C25_StatusAfterPass ==
    [][/\ PassEndsWith("Deployed") =>
             LET st == StatusNext(rname)
                 rel == releases[ReleaseNameOf(obj)]
             IN
             /\ st.FailureCount = 0
             /\ ReadyIs(st, TRUE)
             /\ rel.exists
             /\ st.HelmReleaseName = rel.Name
             /\ st.HelmReleaseRevision = rel.Revision
             /\ st.DeployedChartVersion = rel.ChartVersion
             /\ st.LastAppliedValuesHash =
                    hashValues(getValues(gvIn.cluster, obj.Spec).values)
             /\ st.LastAppliedValuesHash = hashValues(loc.values)
       /\ PassEndsWith("Failed") =>
             LET st == StatusNext(rname) IN
             /\ st.FailureCount = log.startStatus.FailureCount + 1
             /\ st.FailureCount = StatusOf(rname).FailureCount + 1
             /\ ReadyIs(st, FALSE)
             /\ result' = ResAfterFailure]_vars

\* C25's case: a pass on a record that had failed before has ended with
\* phase Deployed and the counter back at 0.
C25_Witness ==
    /\ pc = "return"
    /\ log.startStatus.FailureCount > 0
    /\ "Deployed" \in log.phases
    /\ StatusOf(rname).Phase = "Deployed"
    /\ StatusOf(rname).FailureCount = 0
    /\ result = ResAfterSuccess

\* ------------------------------------------------------------------------
\* Properties of the Helm calls of one pass
\* ------------------------------------------------------------------------
\* The Install, Upgrade and Uninstall calls the pass has made.
MutatingCalls(lg) == lg.installs + lg.upgrades + lg.uninstalls

\* C26: a pass makes at most one Install, Upgrade or Uninstall call: a call
\* is the first one of its pass, the releases change with a call only, and
\* after a call the pass makes no other call, whether it failed or not: it
\* writes the status or removes the finalizer and returns, and the call is
\* made again only by a pass that starts later.
C26_OneMutatingCall ==
    [][/\ MutatingCalls(log') <= 1
       /\ MutatingCalls(log') > MutatingCalls(log) =>
             (MutatingCalls(log) = 0 /\ pc \in {"install", "upgrade", "uninstall"})
       /\ releases' # releases => MutatingCalls(log') = MutatingCalls(log) + 1
       /\ (MutatingCalls(log) = 1 /\ pc' # pc /\ pc # "return") =>
             pc' \in {"deployed", "failed", "removeFinalizer", "return"}
       /\ (pc = "idle" /\ pc' # pc) => MutatingCalls(log') = 0]_vars

\* C26's case: a pass on a record whose Install has failed in an earlier
\* pass makes the call again.
C26_Witness ==
    /\ pc \in {"deployed", "failed"}
    /\ log.installs = 1
    /\ log.startStatus.Phase = "Failed"
    /\ log.startStatus.Message = Msg("Failed to install")

\* ------------------------------------------------------------------------
\* Properties of HandleDeploymentDelete
\* ------------------------------------------------------------------------
\* The step is HandleDeploymentDelete reading the record n for a team.
DeleteReads(n, team) ==
    /\ hpc = "idle"
    /\ hpc' \in {"delete", "return"}
    /\ \/ hpc' = "delete" /\ hmsg'.Name = n /\ hmsg'.TeamID = team
       \/ hpc' = "return" /\ hres'.kind = "delete" /\ hres'.name = n

\* The step is the client.Delete call of HandleDeploymentDelete.
DeleteCalls == hpc = "delete" /\ hpc' # hpc

\* C27: HandleDeploymentDelete returns success without any change when the
\* record does not exist at its read, or no longer exists at its delete
\* call; for an existing record of the same team it goes on to the delete
\* call, which marks the record for deletion or removes it and returns
\* success; so a delete message that is handled again returns success.
C27_DeleteIdempotent ==
    [][/\ \A n \in Names :
             /\ (hpc = "idle" /\ hpc' = "return" /\ hres'.kind = "delete"
                    /\ hres'.name = n /\ ~records[n].exists) =>
                   (~hres'.err /\ UNCHANGED <<records, releases, queued>>)
             /\ (hpc = "idle" /\ hpc' = "return" /\ hres'.kind = "delete"
                    /\ hres'.name = n /\ ~hres'.err) => ~records[n].exists
             /\ \A team \in {"t1", "t2"} :
                   (DeleteReads(n, team) /\ hpc' = "delete") =>
                       (records[n].exists /\ records[n].Spec.TeamID = team)
       /\ DeleteCalls =>
             LET n == hmsg.Name IN
             /\ hpc' = "return"
             /\ hres'.kind = "delete" /\ hres'.name = n /\ ~hres'.err
             /\ UNCHANGED releases
             /\ ~records[n].exists => UNCHANGED <<records, queued>>
             /\ records[n].exists =>
                   /\ records[n].Finalizer =>
                         records' = [records EXCEPT ![n].Deleting = TRUE]
                   /\ ~records[n].Finalizer =>
                         records' = [records EXCEPT ![n] = NoRec]]_vars

\* C27's case: a delete message for a record that has been deleted and
\* cleaned up before is handled again and returns success.
C27_Witness ==
    /\ hpc = "return"
    /\ hres.kind = "delete"
    /\ ~hres.err
    /\ ~hres.existed
    /\ ~records[hres.name].exists
    /\ pc = "return"
    /\ rname = hres.name
    /\ log.removedFinalizer

\* ------------------------------------------------------------------------
\* Properties of HandleDeploymentUpdate
\* ------------------------------------------------------------------------
\* The step is the client.Update call of HandleDeploymentUpdate.
UpdateCalls == hpc = "update" /\ hpc' # hpc

\* The payload holds what the spec already holds.
AlreadyApplied(spec, payload) ==
    /\ payload.Version # "" => spec.ChartVersion = payload.Version
    /\ payload.Values # NilValues => spec.Values = payload.Values

\* C28: HandleDeploymentUpdate on an existing record of the same team sets
\* spec.chartVersion to the payload's version when that is non-empty and
\* spec.values to the payload's values when they are present, and changes
\* nothing else of the record, status and phase included; an update whose
\* payload the spec already holds leaves the spec as it is, so the second
\* application of an update gives the spec of the first.
C28_UpdateFrame ==
    [][UpdateCalls =>
          LET n == hmsg.Name
              old == records[n]
              new == records'[n]
          IN
          /\ hpc' = "return"
          /\ \A m \in Names \ {n} : records'[m] = records[m]
          /\ new.exists = old.exists
          /\ old.exists =>
                /\ new.Status = old.Status
                /\ new.Spec.AppName = old.Spec.AppName
                /\ new.Spec.TeamID = old.Spec.TeamID
                /\ new.Spec.RequestedBy = old.Spec.RequestedBy
                /\ new.Spec.ReleaseName = old.Spec.ReleaseName
                /\ new.Spec.ValuesFrom = old.Spec.ValuesFrom
                /\ new.Spec.Suspend = old.Spec.Suspend
                /\ new.Finalizer = old.Finalizer
                /\ new.Deleting = old.Deleting
                /\ new.Labels = old.Labels
                /\ new.Spec.ChartVersion # old.Spec.ChartVersion =>
                      (hmsg.Version # "" /\ new.Spec.ChartVersion = hmsg.Version)
                /\ new.Spec.Values # old.Spec.Values =>
                      (hmsg.Values # NilValues /\ new.Spec.Values = hmsg.Values)
                /\ ~hres'.err => AlreadyApplied(new.Spec, hmsg)
                /\ AlreadyApplied(old.Spec, hmsg) => new.Spec = old.Spec
                /\ hres'.err => new = old]_vars

\* C28's case: an update with a version and with values has been applied
\* to a record that held them already from an earlier application, and has
\* left the record as it was.
C28_Witness ==
    /\ hpc = "return"
    /\ hres.kind = "update"
    /\ ~hres.err
    /\ hres.noop
    /\ records[hres.name].exists
    /\ records[hres.name].Spec.ChartVersion = "2.0"
    /\ records[hres.name].Spec.Values = Doc(ValuesOne)

\* ------------------------------------------------------------------------
\* Properties of hashValues
\* ------------------------------------------------------------------------
\* C31: the hash is a function of the content of the merged tree: two
\* evaluations whose merged trees have the same keys and values get the
\* same hash, whatever the order in which the references were merged and
\* whatever the order in which each process run's maps yield their keys;
\* it is the hash of the marshalled content.
C31_HashOfContentOnly ==
    (gvOut.done /\ ~gvOut.err) =>
        /\ gvOut.values = gvOut.values2 => gvOut.hash = gvOut.hash2
        /\ gvOut.hash = hashValues(gvOut.values)
        /\ gvOut.hash2 = hashValues(gvOut.values2)

\* C31's case: the references were merged in two different orders into the
\* same tree of more than one key, nested map included, the two runs yield
\* the keys in different orders, and the hashes are equal.
C31_Witness ==
    /\ gvOut.done /\ ~gvOut.err
    /\ gvIn.swap /\ Reversed(gvIn.refs) # gvIn.refs
    /\ gvIn.order # gvIn.order2
    /\ gvOut.values = gvOut.values2
    /\ Cardinality(DOMAIN gvOut.values) > 1
    /\ \E k \in DOMAIN gvOut.values : IsMap(gvOut.values[k])
    /\ gvOut.hash = gvOut.hash2

\* ------------------------------------------------------------------------
\* Properties of a record that is marked for deletion
\* ------------------------------------------------------------------------
\* The positions of a pass that is in reconcileHelm.
HelmPositions ==
    {"installing", "install", "upgrading", "upgrade", "deployed", "failed"}

\* C32: the deletion marker stays on a record until the record is gone, a
\* pass that starts on a marked record observes the marker, and a pass that
\* has observed it never enters reconcileHelm, so it calls neither Install
\* nor Upgrade; a record whose persisted phase is Uninstalling keeps that
\* phase until it is gone.
C32_NoDeployAfterDeletion ==
    [][/\ \A n \in Names :
             (records[n].exists /\ records'[n].exists) =>
                 /\ records[n].Deleting => records'[n].Deleting
                 /\ records[n].Status.Phase = "Uninstalling" =>
                       records'[n].Status.Phase = "Uninstalling"
       /\ (pc = "idle" /\ pc' # pc /\ records[rname'].exists
             /\ records[rname'].Deleting) => log'.sawDeletion
       /\ log'.sawDeletion =>
             /\ pc' \notin HelmPositions
             /\ log'.installs = 0 /\ log'.upgrades = 0 /\ log'.getReleases = 0
             /\ log'.phases \subseteq {"Uninstalling"}]_vars

\* C32's case: a pass on a record whose phase Uninstalling was persisted by
\* an earlier pass, the Uninstall of which failed, is about to call
\* Uninstall again.
C32_Witness ==
    /\ pc = "uninstall"
    /\ log.sawDeletion
    /\ log.startStatus.Phase = "Uninstalling"
    /\ unFails[rname] > 0
    /\ records[rname].exists
    /\ records[rname].Status.Phase = "Uninstalling"
    /\ releases[ReleaseNameOf(obj)].exists

\* ------------------------------------------------------------------------
\* Properties of convergence
\* ------------------------------------------------------------------------
\* The record is there, not marked for deletion and not suspended, and its
\* package is in the mirror.
Reconcilable(n) ==
    /\ records[n].exists
    /\ ~records[n].Deleting
    /\ ~records[n].Spec.Suspend
    /\ records[n].Spec.AppName \in mirror

\* The status of the record is Deployed for its generation, with the hash
\* of the values its spec merges to.
Converged(n) ==
    LET r == records[n] IN
    /\ DeployedForGeneration(r)
    /\ ~getValues(gvIn.cluster, r.Spec).err
    /\ r.Status.LastAppliedValuesHash =
           hashValues(getValues(gvIn.cluster, r.Spec).values)

\* C33: under fair scheduling of the reconciler a record that is not marked
\* for deletion, not suspended and has its package in the mirror eventually
\* has phase Deployed with observedGeneration = generation and the hash of
\* the values its spec merges to, unless it is deleted first; the changes
\* of the spec and the failures of lifecycle calls are finitely many, and
\* the updates applied in the middle of a pass and the status writes they
\* make fail are among the behaviours.
C33_EventuallyDeployed ==
    \A n \in Names :
        Reconcilable(n) ~> (Converged(n) \/ ~Reconcilable(n))

\* C33's case: Install has succeeded and the Deployed status write of the
\* pass was refused because a deployment-update was applied in the middle
\* of the pass; the persisted phase is still Installing.
C33_Witness ==
    /\ pc = "return"
    /\ result = ResErr
    /\ log.installs = 1
    /\ Reconcilable(rname)
    /\ releases[ReleaseNameOf(records[rname])].exists
    /\ records[rname].Status.Phase = "Installing"
    /\ records[rname].Generation = 2
    /\ ~Converged(rname)

\* ------------------------------------------------------------------------
\* Properties of the release fields of the status
\* ------------------------------------------------------------------------
\* lastAppliedValuesHash, helmReleaseRevision, helmReleaseName and
\* deployedChartVersion of a status.
ReleaseFields(status) ==
    <<status.LastAppliedValuesHash, status.HelmReleaseRevision,
      status.HelmReleaseName, status.DeployedChartVersion>>

\* The pass has read a record whose last pass wrote Failed after its
\* Upgrade had failed, and whose spec is the one that pass had read.
AfterFailedUpgrade(r) ==
    /\ r.Status.Phase = "Failed"
    /\ r.Status.Message = <<"Failed to upgrade">>
    /\ r.Status.ObservedGeneration = r.Generation

\* C34: the release fields of a record's status change only with the
\* status write that ends a pass with phase Deployed; the writes of Failed,
\* Installing, Upgrading and Uninstalling leave them as they were; so the
\* pass that follows a failed Upgrade, when it finds the release, decides to
\* upgrade again.
C34_ReleaseFieldsFrame ==
    [][/\ \A n \in Names :
             (records[n].exists /\ records'[n].exists
                /\ ReleaseFields(records'[n].Status) # ReleaseFields(records[n].Status))
             => /\ n = rname
                /\ PassEndsWith("Deployed")
       /\ (PassStep /\ pc' = "return" /\ log'.statusWrites > 0
             /\ "Deployed" \notin log'.phases /\ records'[rname].exists) =>
             ReleaseFields(records'[rname].Status) = ReleaseFields(log'.startStatus)
       /\ (ReleaseFoundStep /\ AfterFailedUpgrade(obj')) => pc' = "upgrading"]_vars

\* C34's case: the pass after a failed Upgrade, with the release fields the
\* last Deployed write had left, is about to call Upgrade again.
C34_Witness ==
    /\ pc = "upgrade"
    /\ AfterFailedUpgrade([Status |-> log.startStatus, Generation |-> obj.Generation])
    /\ log.startStatus.HelmReleaseRevision = 1
    /\ log.startStatus.LastAppliedValuesHash # loc.valuesHash
    /\ ReleaseFields(records[rname].Status) = ReleaseFields(log.startStatus)


\* ------------------------------------------------------------------------
\* Properties of the pass on value references that cannot be read
\* ------------------------------------------------------------------------
\* The reference cannot be read from the namespace.
Unreadable(ref) == getValuesFromReference(gvIn.cluster, ref).err

Readable(ref) == ~Unreadable(ref)

\* A reference of the record that is not optional cannot be read.
RequiredRefFails(r) ==
    \E i \in 1..Len(r.Spec.ValuesFrom) :
        ~r.Spec.ValuesFrom[i].Optional /\ Unreadable(r.Spec.ValuesFrom[i])

\* The values of the record with the references that cannot be read taken
\* out of valuesFrom.
ValuesOfReadable(r) ==
    getValues(gvIn.cluster,
              [r.Spec EXCEPT !.ValuesFrom = SelectSeq(@, Readable)])

\* The pass holds the failure of getValues and is about to write it.
ValuesFailedPending ==
    pc = "failed" /\ loc.msg = <<"Failed to get values">>

\* The first step of reconcileHelm on a chart of the directory: a reference
\* that is not optional and cannot be read sends the pass to its failure
\* exit before any Helm call; otherwise the values are those of the
\* readable references and spec.values, and the hash is theirs.
ValueReferencesRead ==
    (ReconcileHelmStep /\ obj'.Spec.AppName \in mirror) =>
        /\ RequiredRefFails(obj') =>
              /\ pc' = "failed"
              /\ loc'.msg = <<"Failed to get values">>
              /\ log'.getReleases = 0 /\ log'.installs = 0 /\ log'.upgrades = 0
        /\ (~RequiredRefFails(obj') /\ obj'.Spec.Values.t # "bad") =>
              /\ ~ValuesOfReadable(obj').err
              /\ loc'.values = ValuesOfReadable(obj').values
              /\ loc'.valuesHash = hashValues(ValuesOfReadable(obj').values)
              /\ loc'.msg # <<"Failed to get values">>
              /\ log'.getReleases = 1

\* The pass ends with the failure of getValues written and no Helm call.
ValuesFailureWritten ==
    /\ pc' = "return"
    /\ StatusNext(rname).Phase = "Failed"
    /\ StatusNext(rname).Message = <<"Failed to get values">>
    /\ result' = ResAfterFailure
    /\ log'.getReleases = 0 /\ log'.installs = 0 /\ log'.upgrades = 0
    /\ UNCHANGED releases

\* C35 as claimed: an optional reference that cannot be read contributes
\* nothing to the merged values; a reference that is not optional and
\* cannot be read ends the pass with phase Failed and no GetRelease, Install
\* or Upgrade call.
C35_AsClaimed ==
    [][/\ ValueReferencesRead
       /\ (ValuesFailedPending /\ pc' # pc) => ValuesFailureWritten]_vars

\* C35: the same, when the status write of the failure is accepted; when
\* the record has changed since the pass read it the write is refused, the
\* status stays as it was and the pass returns the error; no GetRelease,
\* Install or Upgrade call is made in either case.
C35_UnreadableReferences ==
    [][/\ ValueReferencesRead
       /\ (ValuesFailedPending /\ pc' # pc /\ ~rstale) => ValuesFailureWritten
       /\ (ValuesFailedPending /\ pc' # pc /\ rstale) =>
             /\ pc' = "return"
             /\ result' = ResErr
             /\ UNCHANGED <<records, releases>>
             /\ log'.getReleases = 0 /\ log'.installs = 0 /\ log'.upgrades = 0]_vars

\* C35's case: a pass on a record with an unreadable optional reference
\* followed by a reference of an unsupported kind that is not optional has
\* ended with the failure written and no Helm call.
C35_Witness ==
    /\ pc = "return"
    /\ result = ResAfterFailure
    /\ records[rname].Spec.ValuesFrom =
          <<Ref("ConfigMap", "broken", "", TRUE), Ref("Deployment", "base", "", FALSE)>>
    /\ records[rname].Status.Phase = "Failed"
    /\ records[rname].Status.Message = <<"Failed to get values">>
    /\ log.getReleases = 0
    /\ ~releases[ReleaseNameOf(records[rname])].exists


\* ------------------------------------------------------------------------
\* Properties of HandleDeploymentRequest on a name that is taken
\* ------------------------------------------------------------------------
\* C36: whenever HandleDeploymentRequest returns success, the record at the
\* resolved name has the appName and the teamId of the payload, also when a
\* record with that name existed before the message was handled.
C36_RecordIsThePayloads ==
    [][\A p \in DeploymentRequests :
          (hres.kind = "none" /\ hres'.kind = "request" /\ ~hres'.err
             /\ hres'.id = p.RequestID)
          => /\ records'[hres'.name].exists
             /\ records'[hres'.name].Spec.AppName = p.AppName
             /\ records'[hres'.name].Spec.TeamID = p.TeamID]_vars


\* ------------------------------------------------------------------------
\* Properties of HandleDeploymentRequest on request ids of any length
\* ------------------------------------------------------------------------
\* C37: HandleDeploymentRequest ends with success or an error value for
\* every payload, a payload with no release name and a request id shorter
\* than 8 characters included: the step that handles a delivery leaves the
\* handler returned, so that the delivery is acked or nacked, and a
\* delivery that was dispatched is never left without its answer.
C37_HandlerReturns ==
    [][/\ (hpc = "idle" /\ hpc' # "idle") =>
             /\ hpc' = "return"
             /\ hres'.kind \in {"request", "rejected"}
       /\ hpc' # "panic"]_vars


\* ------------------------------------------------------------------------
\* Properties of the broker connections of the Consumer
\* ------------------------------------------------------------------------
\* The connections the Consumer has opened that are open.
OpenConnections == ctl.leaked + (IF ctl.conn = "open" THEN 1 ELSE 0)

\* C38: at any time the consumer holds at most one open broker connection,
\* and after a connect attempt that has failed at any step (Start is in the
\* wait before the next attempt) no connection that attempt opened is open.
C38_OneConnection ==
    /\ OpenConnections <= 1
    /\ ctl.at = "wait" => OpenConnections = 0


\* Stop was called while Start was in the consume loop.
StoppedWhileConsuming == ctl.stop /\ ctl.stopAt \in {"consume", "handle"}

\* C39: after Stop has been called on a Consumer that is consuming, no
\* further delivery is taken, no new broker connection is opened, Start
\* returns nil unless the context is cancelled, no connection is open when
\* it returns, and Start eventually returns.
C39_StopEndsConsumer ==
    /\ [][StoppedWhileConsuming =>
             /\ ~(ctl'.at = "handle" /\ ctl.at # "handle")
             /\ ~(ctl.at = "connect" /\ ctl'.conn = "open")
             /\ (ctl'.at = "returned" /\ ctl.at # "returned") =>
                   /\ ctl'.ctx = "live" => ctl'.ret = "nil"
                   /\ ctl'.leaked = 0 /\ ctl'.conn # "open"]_vars
    /\ StoppedWhileConsuming ~> (ctl.at = "returned")


\* ------------------------------------------------------------------------
\* Properties of the two locks
\* ------------------------------------------------------------------------
\* Worker g holds the read lock of the Syncer.
HoldsMirror(g) == g \in lk.readers

\* Worker g holds the mutex of the helm Client.
HoldsHelm(g) == lk.mu = g

\* The locks are held by the calls that took them and by nothing else: a
\* reader is in ChartExists or ListCharts, the holder of c.mu is in the
\* body of Install, Upgrade or Uninstall, a writer excludes the readers,
\* and a worker that is in no call holds no lock.
LocksAreOfCalls ==
    \A g \in Goroutines :
        /\ HoldsMirror(g) <=> lk.work[g].at = "read"
        /\ HoldsHelm(g) <=> lk.work[g].at = "body"
        /\ ~(HoldsMirror(g) /\ HoldsHelm(g))
        /\ lk.writer # "none" => lk.readers = {}

\* C40: no goroutine holds s.mu and c.mu at the same time; a lock that was
\* taken is released when its call returns, on the error paths too; and
\* every reader, writer and caller of the helm Client that waits for a lock
\* gets it once the operations of the holders have ended.
C40_LocksNeverNest ==
    /\ []LocksAreOfCalls
    /\ \A g \in Goroutines :
          /\ (lk.work[g].at = "RLock") ~> HoldsMirror(g)
          /\ (lk.work[g].at = "Lock") ~> HoldsHelm(g)
          /\ HoldsMirror(g) ~> ~HoldsMirror(g)
          /\ HoldsHelm(g) ~> ~HoldsHelm(g)
    /\ \A w \in MirrorWriters :
          /\ (w \in lk.pending) ~> (lk.writer = w)
          /\ (lk.writer = w) ~> (lk.writer = "none")

\* C40's case: a call that held a lock has returned an error and the lock
\* is free again; one worker reads the charts directory while the other
\* holds c.mu in Uninstall, and both writers wait for the reader.
C40_Witness ==
    /\ lk.failed
    /\ \E g, h \in Goroutines :
          /\ g # h
          /\ HoldsMirror(g)
          /\ HoldsHelm(h)
          /\ lk.work[h].call = "Uninstall"
    /\ lk.pending = MirrorWriters

====
